---- MODULE Spec2Model ----
(***************************************************************************)
(* Crash Detective (src/crash_finder.py): the game-root resolver, the two  *)
(* event-log readers, _handle_search with its primary matching pass and    *)
(* its report, the crash interpreter and the window's event handling, as   *)
(* state machines over small input sets.                                   *)
(*                                                                         *)
(* Strings are TLA+ strings; Python's str operations (lower, replace, in,  *)
(* split, join) and ntpath's dirname/basename are computed character by    *)
(* character.                                                              *)
(***************************************************************************)
EXTENDS Integers, Sequences, FiniteSets, TLC

VARIABLES
    pc,             \* position of the running function
    fn,             \* the function that runs
    exe_path,       \* the executable path (exe_path_input.text())
    root,           \* what get_game_root_folder returned
    log_message,    \* the argument of interpret_crash
    translations,   \* the list interpret_crash returned
    logs,           \* the list a reader builds and returns
    error_msg,      \* the error a reader returns, NoError for None
    matching_logs,  \* _handle_search: the records of the primary pass that matched
    log_idx,        \* _handle_search: how many records of logs the pass has handled
    log_no,         \* read_general_logs: index of log_name in log_names
    hand,           \* the open event log handle (the log's name), NoHandle when none
    events,         \* the number of records in the batch ReadEventLog returned
    ev_idx,         \* how many records of the batch the for loop has taken
    event,          \* the record the for loop is at
    event_time,     \* its converted TimeGenerated
    past_threshold, \* read_general_logs: the flag of that name
    chan,           \* the read position of the open handle: the records handed out
                    \* through it and the timestamp of the last one taken
    hist,           \* observation: the logs in which a record older than the threshold
                    \* was met, the handles opened and the handles closed, in order
    spc,            \* _handle_search: its position while it or a function it called runs
    result,         \* _handle_search: the report, the sections appended so far
    scanned,        \* _handle_search: len(logs), kept while read_general_logs runs
    general_logs,   \* _handle_search: the list read_general_logs returned
    general_error,  \* _handle_search: the error read_general_logs returned
    calls,          \* observation: the readers _handle_search has called, in order
    ui_pending,     \* the window: the user's events waiting in the event queue
    ui_stack,       \* the window: the calls of _search_crashes that have begun and
                    \* not ended, the innermost last, each with its position
    results_text    \* the window: the text of results_text

rootVars   == <<exe_path, root>>
interpVars == <<log_message, translations>>
matchVars  == <<matching_logs, log_idx>>
readVars   == <<fn, logs, error_msg, log_no, hand, events, ev_idx, event, event_time,
                past_threshold, chan, hist>>
searchVars == <<spc, result, scanned, general_logs, general_error, calls>>
uiVars     == <<ui_pending, ui_stack, results_text>>
vars == <<pc, rootVars, interpVars, matchVars, readVars, searchVars, uiVars>>

(***************************************************************************)
(* Python str operations                                                   *)
(***************************************************************************)
UpperChars == "ABCDEFGHIJKLMNOPQRSTUVWXYZ"
LowerChars == "abcdefghijklmnopqrstuvwxyz"

\* the lower-case letter of every upper-case letter
LowerMap ==
    [c \in {SubSeq(UpperChars, i, i) : i \in 1..Len(UpperChars)} |->
        LET i == CHOOSE k \in 1..Len(UpperChars) : SubSeq(UpperChars, k, k) = c
        IN  SubSeq(LowerChars, i, i)]

\* one character of str.lower()
LowerChar(c) == IF c \in DOMAIN LowerMap THEN LowerMap[c] ELSE c

RECURSIVE Lower(_)
\* str.lower(), half by half so that long messages stay within reach
Lower(s) ==
    IF Len(s) = 0 THEN ""
    ELSE IF Len(s) = 1 THEN LowerChar(s)
    ELSE LET h == Len(s) \div 2
         IN  Lower(SubSeq(s, 1, h)) \o Lower(SubSeq(s, h + 1, Len(s)))

RECURSIVE Replace(_, _, _)
\* str.replace(old, new) for a one-character old
Replace(s, old, new) ==
    IF Len(s) = 0 THEN ""
    ELSE IF Len(s) = 1 THEN (IF s = old THEN new ELSE s)
    ELSE LET h == Len(s) \div 2
         IN  Replace(SubSeq(s, 1, h), old, new) \o Replace(SubSeq(s, h + 1, Len(s)), old, new)

\* the function f as the table of its values
Table(f) == f @@ <<>>

\* the Python test  p in s  on strings
Contains(s, p) ==
    \E i \in 1..(Len(s) - Len(p) + 1) : SubSeq(s, i, i + Len(p) - 1) = p

(***************************************************************************)
(* ntpath: abspath, dirname, basename on absolute drive paths              *)
(***************************************************************************)
Sep == "\\"
AltSep == "/"

\* os.path.abspath of an absolute path without . or .. components:
\* normpath turns every / into \
AbsPath(p) == Replace(p, AltSep, Sep)

\* ntpath splits at either separator
IsSep(c) == c = Sep \/ c = AltSep

\* index of the last separator of p, 0 when there is none
LastSep(p) ==
    IF \E i \in 1..Len(p) : IsSep(SubSeq(p, i, i))
    THEN CHOOSE i \in 1..Len(p) :
            /\ IsSep(SubSeq(p, i, i))
            /\ \A j \in (i + 1)..Len(p) : ~IsSep(SubSeq(p, j, j))
    ELSE 0

RECURSIVE RStripSep(_)
\* head.rstrip(seps)
RStripSep(h) ==
    IF h # "" /\ IsSep(SubSeq(h, Len(h), Len(h)))
    THEN RStripSep(SubSeq(h, 1, Len(h) - 1))
    ELSE h

\* ntpath.splitdrive of "X:..." : the two-character drive and the rest
DriveOf(p) == IF Len(p) >= 2 /\ SubSeq(p, 2, 2) = ":" THEN SubSeq(p, 1, 2) ELSE ""
RestOf(p)  == SubSeq(p, Len(DriveOf(p)) + 1, Len(p))

\* os.path.dirname: ntpath.split(p)[0]
DirName(p) ==
    LET r    == RestOf(p)
        i    == LastSep(r)
        head == SubSeq(r, 1, i)
        h    == IF RStripSep(head) = "" THEN head ELSE RStripSep(head)
    IN  DriveOf(p) \o h

\* os.path.basename: ntpath.split(p)[1]
BaseName(p) ==
    LET r == RestOf(p)
    IN  SubSeq(r, LastSep(r) + 1, Len(r))

(***************************************************************************)
(* get_game_root_folder                                                    *)
(***************************************************************************)
BINARY_FOLDER_PATTERNS ==
    << "bin", "binaries", "binary",
       "x64", "x86", "win64", "win32",
       "game", "build", "out", "output",
       "release", "debug", "shipping",
       "engine", "runtime", "launcher" >>

generic_folders ==
    { "games", "program files", "program files (x86)", "steam", "steamapps",
      "common", "users", "" }

max_levels == 4

\* the for loop over BINARY_FOLDER_PATTERNS: pattern in folder_name_lower
is_binary_folder(folder_name) ==
    \E k \in 1..Len(BINARY_FOLDER_PATTERNS) :
        Contains(Lower(folder_name), BINARY_FOLDER_PATTERNS[k])

RECURSIVE AscendLoop_NoLimit(_, _)
\* the while loop without the test of levels_up
AscendLoop_NoLimit(current_path, levels_up) ==
    IF is_binary_folder(BaseName(current_path))
    THEN LET parent == DirName(current_path)
         IN  IF parent = current_path
             THEN <<current_path, levels_up>>
             ELSE AscendLoop_NoLimit(parent, levels_up + 1)
    ELSE <<current_path, levels_up>>

RECURSIVE AscendLoop(_, _)
\* the while loop: the pair <<current_path, levels_up>> it ends with
AscendLoop(current_path, levels_up) ==
    IF levels_up < max_levels
    THEN IF is_binary_folder(BaseName(current_path))
         THEN LET parent == DirName(current_path)
              IN  IF parent = current_path
                  THEN <<current_path, levels_up>>
                  ELSE AscendLoop(parent, levels_up + 1)
         ELSE <<current_path, levels_up>>
    ELSE <<current_path, levels_up>>

\* IsGeneric with the empty name (a drive root) left out of the list
IsGeneric_NoEmpty(folder_name) == Lower(folder_name) \in (generic_folders \ {""})

\* whether the safety check replaces the candidate by the exe directory
IsGeneric(folder_name) == Lower(folder_name) \in generic_folders

\* get_game_root_folder without the safety check after the loop
get_game_root_folder_NoCheck(path) ==
    LET exe_dir == DirName(AbsPath(path))
        loop    == AscendLoop(exe_dir, 0)
    IN  [path |-> loop[1], name |-> BaseName(loop[1]),
         levels_up |-> loop[2], fallback |-> FALSE]

\* the returned pair (path, name); levels_up and fallback record how the
\* loop ended
get_game_root_folder(path) ==
    LET exe_dir      == DirName(AbsPath(path))
        current_path == AscendLoop(exe_dir, 0)[1]
        folder_name  == BaseName(current_path)
    IN  IF IsGeneric(folder_name)
        THEN [path |-> exe_dir, name |-> BaseName(exe_dir),
              levels_up |-> AscendLoop(exe_dir, 0)[2], fallback |-> TRUE]
        ELSE [path |-> current_path, name |-> folder_name,
              levels_up |-> AscendLoop(exe_dir, 0)[2], fallback |-> FALSE]

(***************************************************************************)
(* interpret_crash                                                         *)
(***************************************************************************)
\* the dict CRASH_TRANSLATIONS in insertion order: <<pattern, translation>>
CRASH_TRANSLATIONS == <<
    <<"0xc0000005", "ACCESS VIOLATION: Likely corrupted files or memory issue.">>,
    <<"0xc0000374", "HEAP CORRUPTION: Internal game error.">>,
    <<"0xc00000fd", "STACK OVERFLOW: Infinite loop or mod conflict.">>,
    <<"0xc0000409", "STACK BUFFER OVERRUN: Game security or anti-cheat issue.">>,
    <<"0xc0000008", "INVALID HANDLE: Corrupted files or driver conflict.">>,
    <<"0xc0000017", "NO MEMORY: System ran out of memory, close other apps.">>,
    <<"0xc000009a", "INSUFFICIENT RESOURCES: Not enough system resources.">>,
    <<"0xc0000006", "IN-PAGE ERROR: Disk read failure, check your hard drive.">>,
    <<"0xc000001d", "ILLEGAL INSTRUCTION: CPU incompatibility or corrupted game files.">>,
    <<"0xc000001e", "INVALID LOCK SEQUENCE: Thread synchronization error.">>,
    <<"0xc0000025", "NONCONTINUABLE EXCEPTION: Fatal error, cannot recover.">>,
    <<"0xc0000026", "INVALID DISPOSITION: Bad exception handler, corrupted files.">>,
    <<"0xc000008c", "ARRAY BOUNDS EXCEEDED: Memory overrun, verify game files.">>,
    <<"0xc000008d", "FLOAT DENORMAL: Floating-point math error in application.">>,
    <<"0xc000008e", "FLOAT DIVIDE BY ZERO: Math error, likely a game bug.">>,
    <<"0xc000008f", "FLOAT INEXACT RESULT: Floating-point precision error.">>,
    <<"0xc0000090", "FLOAT INVALID OPERATION: Invalid math operation in app.">>,
    <<"0xc0000091", "FLOAT OVERFLOW: Number too large, possible game bug.">>,
    <<"0xc0000092", "FLOAT STACK CHECK: Floating-point stack error.">>,
    <<"0xc0000093", "FLOAT UNDERFLOW: Number too small, possible game bug.">>,
    <<"0xc0000094", "INTEGER DIVIDE BY ZERO: Math error, verify game files.">>,
    <<"0xc0000095", "INTEGER OVERFLOW: Number too large, possible game bug.">>,
    <<"0xc0000096", "PRIVILEGED INSTRUCTION: App tried restricted CPU op.">>,
    <<"0xc0000142", "DLL INIT FAILED: Missing Visual C++ Redistributable or corrupted DLLs.">>,
    <<"0xc0000135", "DLL NOT FOUND: Missing runtime DLL, reinstall the app.">>,
    <<"0xc000007b", "INVALID IMAGE: 32/64-bit mismatch or corrupted files.">>,
    <<"0xc0000018", "CONFLICTING ADDRESSES: DLL load conflict, reinstall app.">>,
    <<"0xc000012f", "BAD IMAGE: Corrupted executable or DLL file.">>,
    <<"0xc0000020", "INVALID FILE FOR SECTION: Corrupted DLL or EXE file.">>,
    <<"0xe0434352", ".NET CLR EXCEPTION: .NET app crash, repair/reinstall .NET.">>,
    <<"0xe0434f4d", ".NET COM ERROR: .NET COM interop failure.">>,
    <<"0xe06d7363", "C++ EXCEPTION: Unhandled Visual C++ exception thrown.">>,
    <<"0x80000003", "BREAKPOINT: Debugger attached or anti-tamper triggered.">>,
    <<"0x80000004", "SINGLE STEP: Debugging trace detected.">>,
    <<"0x40000015", "FATAL APP EXIT: App called abort(), critical error.">>,
    <<"0x40010006", "CTRL+C EXIT: App terminated by user or script.">>,
    <<"0xc0000602", "UNKNOWN SOFTWARE EXCEPTION: Fail-fast or critical error.">>,
    <<"0xc00000f0", "STATUS CANCELLED: Operation was cancelled unexpectedly.">>,
    <<"0x40000016", "FATAL USER CALLBACK: C runtime callback error.">>,
    <<"0xc0000417", "INVALID C RUNTIME PARAM: Bad parameter in C runtime call.">>,
    <<"nvwgf", "GPU ERROR: Graphics driver crash (NVIDIA).">>,
    <<"nvlddmkm", "GPU ERROR: NVIDIA kernel driver crash, update drivers.">>,
    <<"nvoglv", "GPU ERROR: NVIDIA OpenGL driver crash, update drivers.">>,
    <<"nvd3dum", "GPU ERROR: NVIDIA Direct3D driver crash, update drivers.">>,
    <<"nvcuda", "GPU ERROR: NVIDIA CUDA driver crash, update drivers.">>,
    <<"atidxx", "GPU ERROR: AMD/ATI Direct3D driver crash, update drivers.">>,
    <<"amdxc", "GPU ERROR: AMD DirectX driver crash, update drivers.">>,
    <<"atioglxx", "GPU ERROR: AMD/ATI OpenGL driver crash, update drivers.">>,
    <<"atig6pxx", "GPU ERROR: AMD graphics driver crash, update drivers.">>,
    <<"amdkmdap", "GPU ERROR: AMD kernel driver crash, update drivers.">>,
    <<"d3d11", "GPU ERROR: Graphics driver crash (Direct3D 11).">>,
    <<"d3d12", "GPU ERROR: Direct3D 12 crash, update GPU drivers.">>,
    <<"d3d10", "GPU ERROR: Direct3D 10 crash, update GPU drivers.">>,
    <<"d3d9", "GPU ERROR: Direct3D 9 crash, install legacy DirectX.">>,
    <<"dxgi", "DirectX ERROR: Graphics API crash, update DirectX.">>,
    <<"d3dcompiler", "DirectX ERROR: Shader compiler crash, update DirectX.">>,
    <<"dxcore", "DirectX ERROR: DirectX core crash, update Windows.">>,
    <<"igdumdim", "GPU ERROR: Intel graphics driver crash, update drivers.">>,
    <<"igdkmd", "GPU ERROR: Intel kernel graphics crash, update drivers.">>,
    <<"ig4icd", "GPU ERROR: Intel legacy GPU driver crash, update drivers.">>,
    <<"ntdll.dll", "SYSTEM DLL: Low-level Windows crash, check for updates.">>,
    <<"kernelbase.dll", "KERNEL ERROR: Windows API crash, update Windows.">>,
    <<"kernel32.dll", "KERNEL ERROR: Core Windows crash, system needs update.">>,
    <<"ucrtbase.dll", "C RUNTIME: Universal C Runtime crash, repair Visual C++.">>,
    <<"msvcrt.dll", "C RUNTIME: Visual C++ runtime crash, reinstall VC++.">>,
    <<"msvcr100.dll", "VC++ 2010 RUNTIME: Reinstall VC++ 2010 Redistributable.">>,
    <<"msvcr110.dll", "VC++ 2012 RUNTIME: Reinstall VC++ 2012 Redistributable.">>,
    <<"msvcr120.dll", "VC++ 2013 RUNTIME: Reinstall VC++ 2013 Redistributable.">>,
    <<"msvcp140.dll", "VC++ 2015+ RUNTIME: Reinstall VC++ 2015-2022 Redist.">>,
    <<"vcruntime140.dll", "VC++ RUNTIME: Reinstall VC++ 2015-2022 Redistributable.">>,
    <<"concrt140.dll", "VC++ CONCURRENCY: Reinstall VC++ 2015-2022 Redist.">>,
    <<"clr.dll", ".NET CLR CRASH: .NET Framework runtime error, repair .NET.">>,
    <<"coreclr.dll", ".NET CORE CRASH: .NET Core/5+ runtime error.">>,
    <<"clrjit.dll", ".NET JIT CRASH: .NET JIT compiler error, repair .NET.">>,
    <<"mscorwks.dll", ".NET 2.0 CRASH: Old .NET Framework error, update .NET.">>,
    <<"mscorlib", ".NET LIBRARY CRASH: .NET base library error.">>,
    <<"wpfgfx", "WPF CRASH: .NET WPF graphics subsystem crash.">>,
    <<"easyanticheat", "ANTI-CHEAT: EasyAntiCheat crash. Repair or reinstall.">>,
    <<"eac_launcher", "ANTI-CHEAT: EasyAntiCheat launcher error, repair EAC.">>,
    <<"battleye", "ANTI-CHEAT: BattlEye crash, verify game files.">>,
    <<"beclient", "ANTI-CHEAT: BattlEye client crash, reinstall BattlEye.">>,
    <<"beservice", "ANTI-CHEAT: BattlEye service crash, reinstall BattlEye.">>,
    <<"bedaisy", "ANTI-CHEAT: BattlEye driver error, update Windows.">>,
    <<"vanguard", "ANTI-CHEAT: Riot Vanguard crash, restart PC.">>,
    <<"vgk.sys", "ANTI-CHEAT: Riot Vanguard kernel crash, reinstall.">>,
    <<"eossdk", "EPIC SERVICES: Epic Online Services crash.">>,
    <<"nprotect", "ANTI-CHEAT: nProtect GameGuard crash, reinstall game.">>,
    <<"xigncode", "ANTI-CHEAT: XIGNCODE crash, verify game files.">>,
    <<"denuvo", "DRM: Denuvo anti-tamper crash, verify game files.">>,
    <<"steam_api", "STEAM API: Steam integration crash, verify game files.">>,
    <<"steam_api64", "STEAM API: Steam integration crash, verify game files.">>,
    <<"steamclient", "STEAM CLIENT: Steam client crash, restart Steam.">>,
    <<"galaxydll", "GOG GALAXY: GOG Galaxy integration crash.">>,
    <<"uplay_r", "UBISOFT CONNECT: Ubisoft DRM crash, relaunch client.">>,
    <<"unity", "UNITY ENGINE: Game engine crash, verify game files.">>,
    <<"unreal", "UNREAL ENGINE: Game engine crash, verify game files.">>,
    <<"ue4", "UNREAL ENGINE: Game engine crash, verify game files.">>,
    <<"ue5", "UNREAL ENGINE 5: Game engine crash, verify game files.">>,
    <<"cryengine", "CRYENGINE: Game engine crash, verify game files.">>,
    <<"frostbite", "FROSTBITE ENGINE: Game engine crash, verify files.">>,
    <<"gameoverlayrenderer", "STEAM OVERLAY: Steam overlay crash, disable overlay.">>,
    <<"renderdoc", "RENDERDOC: Graphics debugger conflict, close RenderDoc.">>,
    <<"xaudio2", "AUDIO ERROR: XAudio2 crash, reinstall DirectX.">>,
    <<"dsound.dll", "AUDIO ERROR: DirectSound crash, check audio drivers.">>,
    <<"wwise", "AUDIO ENGINE: Wwise audio engine crash.">>,
    <<"fmod", "AUDIO ENGINE: FMOD audio engine crash.">>,
    <<"ws2_32.dll", "NETWORK ERROR: Winsock crash, check network drivers.">>,
    <<"winhttp.dll", "NETWORK ERROR: HTTP connection crash, check network.">>,
    <<"mswsock.dll", "NETWORK ERROR: Windows socket provider crash.">>
>>

NoPattern == "No specific error pattern detected."

\* the entries whose pattern.lower() is in message_lower
PatternLower == [k \in 1..Len(CRASH_TRANSLATIONS) |-> Lower(CRASH_TRANSLATIONS[k][1])]

MatchingEntries(message_lower) ==
    {k \in 1..Len(CRASH_TRANSLATIONS) : Contains(message_lower, PatternLower[k])}

\* ScanTable leaving the loop at the first matching entry
ScanTable_FirstOnly(message_lower) ==
    LET S == MatchingEntries(message_lower)
    IN  IF S = {} THEN <<>>
        ELSE <<CRASH_TRANSLATIONS[CHOOSE k \in S : \A j \in S : k <= j][2]>>

\* the for loop over CRASH_TRANSLATIONS.items(): the translations of the
\* matching entries, appended in the order the loop meets them
ScanTable(message_lower) ==
    LET S     == MatchingEntries(message_lower)
        nth(i) == CHOOSE k \in S : Cardinality({j \in S : j < k}) = i - 1
    IN  [i \in 1..Cardinality(S) |-> CRASH_TRANSLATIONS[nth(i)][2]]

\* interpret_crash returning the list as found, without the default message
interpret_crash_NoDefault(message) ==
    IF message = "" THEN <<NoPattern>> ELSE ScanTable(Lower(message))

interpret_crash(message) ==
    IF message = "" THEN <<NoPattern>>
    ELSE LET found == ScanTable(Lower(message))
         IN  IF found # <<>> THEN found ELSE <<NoPattern>>

(***************************************************************************)
(* difflib.SequenceMatcher(None, a, b).ratio(), os.path.splitext,          *)
(* str.split(), as _handle_search uses them                                *)
(***************************************************************************)
\* the matching blocks <<i, j, k>> of a[alo..ahi] and b[blo..bhi]
Blocks(a, alo, ahi, b, blo, bhi) ==
    {t \in (alo..ahi) \X (blo..bhi) \X (1..(ahi - alo + 1)) :
        /\ t[1] + t[3] - 1 <= ahi
        /\ t[2] + t[3] - 1 <= bhi
        /\ SubSeq(a, t[1], t[1] + t[3] - 1) = SubSeq(b, t[2], t[2] + t[3] - 1)}

\* find_longest_match: the longest block, the one starting earliest in a,
\* and among those the one starting earliest in b
LongestMatch(a, alo, ahi, b, blo, bhi) ==
    LET B == Blocks(a, alo, ahi, b, blo, bhi)
    IN  CHOOSE t \in B : \A u \in B :
            \/ u[3] < t[3]
            \/ u[3] = t[3] /\ t[1] < u[1]
            \/ u[3] = t[3] /\ t[1] = u[1] /\ t[2] <= u[2]

RECURSIVE MatchCount(_, _, _, _, _, _)
\* get_matching_blocks: the total size of the blocks found by splitting
\* around the longest match
MatchCount(a, alo, ahi, b, blo, bhi) ==
    IF alo > ahi \/ blo > bhi \/ Blocks(a, alo, ahi, b, blo, bhi) = {} THEN 0
    ELSE LET t == LongestMatch(a, alo, ahi, b, blo, bhi)
         IN  t[3] + MatchCount(a, alo, t[1] - 1, b, blo, t[2] - 1)
                  + MatchCount(a, t[1] + t[3], ahi, b, t[2] + t[3], bhi)

\* ratio() as the fraction <<2 * matches, len(a) + len(b)>>; 1.0 when both
\* strings are empty
Ratio(a, b) ==
    IF Len(a) + Len(b) = 0 THEN <<1, 1>>
    ELSE <<2 * MatchCount(a, 1, Len(a), b, 1, Len(b)), Len(a) + Len(b)>>

\* the comparison made with >= in place of >
AboveThreshold_Inclusive(r) == 10 * r[1] >= 6 * r[2]

\* the comparison  ratio > 0.6
AboveThreshold(r) == 10 * r[1] > 6 * r[2]

\* f"{ratio:.0%}": the percentage rounded to the nearest integer, a tie to
\* the even one (exact for the string lengths used here)
Percent(r) ==
    LET n  == 100 * r[1]
        fl == n \div r[2]
        rm == n % r[2]
        v  == IF 2 * rm < r[2] THEN fl
              ELSE IF 2 * rm > r[2] THEN fl + 1
              ELSE IF fl % 2 = 0 THEN fl ELSE fl + 1
    IN  ToString(v) \o "%"

\* os.path.splitext(name)[0] of a file name
SplitExtRoot(name) ==
    LET dots == {i \in 1..Len(name) : SubSeq(name, i, i) = "."}
        i    == IF dots = {} THEN 0 ELSE CHOOSE d \in dots : \A e \in dots : e <= d
    IN  IF i = 0 \/ (\A j \in 1..(i - 1) : SubSeq(name, j, j) = ".")
        THEN name
        ELSE SubSeq(name, 1, i - 1)

IsSpace(c) == c \in {" ", "\t", "\n", "\r"}

\* str.split(): the maximal runs of characters that are no white space, in
\* order
Split(s) ==
    LET ch(i)  == SubSeq(s, i, i)
        starts == {i \in 1..Len(s) : ~IsSpace(ch(i)) /\ (i = 1 \/ IsSpace(ch(i - 1)))}
        ends   == {j \in 1..Len(s) : ~IsSpace(ch(j)) /\ (j = Len(s) \/ IsSpace(ch(j + 1)))}
        nth(k) == CHOOSE i \in starts : Cardinality({j \in starts : j < i}) = k - 1
        endOf(i) == CHOOSE j \in ends : j >= i /\ \A e \in ends : e >= i => j <= e
    IN  [k \in 1..Cardinality(starts) |-> SubSeq(s, nth(k), endOf(nth(k)))]

(***************************************************************************)
(* Event records and the values shared by the two readers                  *)
(***************************************************************************)
EVENTLOG_ERROR_TYPE == 1
EVENTLOG_WARNING_TYPE == 2
APPLICATION_ERROR_EVENT_IDS == {1000, 1001, 1002}
\* log_names with System ahead of Application
log_names_SystemFirst == <<"System", "Application">>

log_names == <<"Application", "System">>
max_results == 10

\* datetime.now() - timedelta(days=days), on an integer clock
time_threshold == 10

NoHandle == "none"
NoError  == "None"
NoReason == ""
NoEvent  == [TimeGenerated |-> 0, EventType |-> 0, EventID |-> 0,
             SourceName |-> "", StringInserts |-> <<>>, Data |-> ""]

\* the texts of the error messages (the leading symbol left out)
AccessDenied   == "Access denied. Please run as Administrator."
OpenFailed     == "Failed to open Application Event Log"
WindowsError   == "Windows Error: "
ReadingError   == "Error reading Event Log: "
ErrText        == "(1500, 'ReadEventLog', 'The event log file is corrupted.')"

RECURSIVE JoinInserts(_)
\* " | ".join([str(s) for s in event.StringInserts if s])
JoinInserts(inserts) ==
    LET kept == SelectSeq(inserts, LAMBDA x : x # "")
    IN  IF kept = <<>> THEN ""
        ELSE IF Len(kept) = 1 THEN kept[1]
        ELSE kept[1] \o " | " \o JoinInserts(Tail(kept))

\* message = "" unless event.StringInserts
MessageOf(e) == JoinInserts(e.StringInserts)

\* event.EventID with no mask
MaskedId_Raw(e) == e.EventID

\* event.EventID & 0xFFFF
MaskedId(e) == e.EventID % 65536

\* event.SourceName or "Unknown"
SourceOf(e) == IF e.SourceName = "" THEN "Unknown" ELSE e.SourceName

\* the read position of a handle just opened: at the newest record, nothing
\* handed out
ChanInit == [served |-> 0, last |-> time_threshold + 1]

\* nothing observed yet: no older record met, no handle opened or closed,
\* no scan of a log ended
HistInit ==
    [older  |-> [n \in {"Application", "System"} |-> FALSE],
     opened |-> <<>>,
     closed |-> <<>>,
     ended  |-> [n \in {"Application", "System"} |-> "no"]]

\* the value every variable of a function has while that function is not
\* running
ReaderIdle ==
    /\ fn = "none" /\ error_msg = NoError /\ log_no = 0 /\ hand = NoHandle
    /\ events = 0 /\ ev_idx = 0 /\ event = NoEvent /\ event_time = 0
    /\ past_threshold = FALSE
    /\ chan = ChanInit
    /\ hist = HistInit
InterpIdle == log_message = "" /\ translations = <<>>
MatchIdle  == matching_logs = <<>> /\ log_idx = 0
RootIdle   == exe_path = "" /\ root = <<>>
SearchIdle ==
    /\ spc = "none" /\ result = <<>> /\ scanned = 0
    /\ general_logs = <<>> /\ general_error = NoError /\ calls = <<>>
UiIdle == ui_pending = <<>> /\ ui_stack = <<>> /\ results_text = <<>>

(***************************************************************************)
(* Specification SpecRoot: get_game_root_folder on a set of paths          *)
(***************************************************************************)
MaxDepth == 5
FolderNames == {"Games", "MyGame", "Binaries", "Win64", "Stellar Blade", "Steam"}

RECURSIVE JoinPath(_)
JoinPath(dirs) == IF dirs = <<>> THEN "" ELSE "/" \o Head(dirs) \o JoinPath(Tail(dirs))

\* C:/<up to MaxDepth folders>/game.exe, as the file dialog returns paths
RootPaths ==
    {"C:" \o JoinPath(d) \o "/game.exe" :
        d \in UNION {[1..n -> FolderNames] : n \in 0..MaxDepth}}

InitRoot ==
    /\ pc = "root_call"
    /\ exe_path \in RootPaths
    /\ root = <<>>
    /\ logs = <<>>
    /\ InterpIdle /\ MatchIdle /\ ReaderIdle /\ SearchIdle /\ UiIdle

\* the call get_game_root_folder(exe_path)
ResolveRoot ==
    /\ pc = "root_call"
    /\ root' = get_game_root_folder(exe_path)
    /\ pc' = "root_done"
    /\ UNCHANGED <<uiVars, searchVars, exe_path, interpVars, matchVars, readVars>>

NextRoot == ResolveRoot
SpecRoot == InitRoot /\ [][NextRoot]_vars

\* the returned path written with forward slashes
SlashPath(p) == Replace(p, Sep, AltSep)

\* C1: get_game_root_folder("C:/Games/MyGame/Binaries/Win64/game.exe")
\* returns ("C:/Games/MyGame", "MyGame").
C1_MyGameRoot ==
    (pc = "root_done" /\ exe_path = "C:/Games/MyGame/Binaries/Win64/game.exe")
        => (SlashPath(root.path) = "C:/Games/MyGame" /\ root.name = "MyGame")

\* C2 as stated: the returned folder name is never a generic container name.
C2_NeverGeneric ==
    pc = "root_done" => Lower(root.name) \notin generic_folders

\* C2 amended: the returned folder name is a generic container name only
\* when the returned pair is the executable's own containing directory.
C2_GenericOnlyExeDir ==
    (pc = "root_done" /\ Lower(root.name) \in generic_folders)
        => /\ root.path = DirName(AbsPath(exe_path))
           /\ root.name = BaseName(DirName(AbsPath(exe_path)))

\* C2: a generic name is returned for an executable that sits in it
C2_Witness ==
    /\ pc = "root_done"
    /\ Lower(root.name) \in generic_folders
    /\ root.name # ""

\* C3: get_game_root_folder("C:/Games/game.exe") returns ("C:/Games",
\* "Games"), the executable's own containing directory.
C3_GamesUnchanged ==
    (pc = "root_done" /\ exe_path = "C:/Games/game.exe")
        => /\ SlashPath(root.path) = "C:/Games"
           /\ root.name = "Games"
           /\ root.path = DirName(AbsPath(exe_path))

C3_Witness ==
    /\ pc = "root_done"
    /\ exe_path = "C:/Games/game.exe"
    /\ root.name = "Games"

(***************************************************************************)
(* Specification SpecInterp: interpret_crash on a set of texts             *)
(***************************************************************************)
MaxFragments == 3
Fragments ==
    { "Exception 0xC0000005 ", "nvlddmkm.sys ", "steam_api64.dll ", "steam_api.dll ",
      "UE4Game ", "Unreal ", "benign text ", "NTDLL.DLL " }

RECURSIVE Concat(_)
Concat(fs) == IF fs = <<>> THEN "" ELSE Head(fs) \o Concat(Tail(fs))

Texts == {Concat(f) : f \in UNION {[1..n -> Fragments] : n \in 0..MaxFragments}}

InitInterp ==
    /\ pc = "interp_call"
    /\ log_message \in Texts
    /\ translations = <<>>
    /\ logs = <<>>
    /\ RootIdle /\ MatchIdle /\ ReaderIdle /\ SearchIdle /\ UiIdle

\* the call interpret_crash(log_message)
Interpret ==
    /\ pc = "interp_call"
    /\ translations' = interpret_crash(log_message)
    /\ pc' = "interp_done"
    /\ UNCHANGED <<uiVars, searchVars, log_message, rootVars, matchVars, readVars>>

NextInterp == Interpret
SpecInterp == InitInterp /\ [][NextInterp]_vars

\* the table entries whose pattern occurs in the lowercased text
Occurring ==
    LET text == Lower(log_message)
    IN  {k \in 1..Len(CRASH_TRANSLATIONS) : Contains(text, CRASH_TRANSLATIONS[k][1])}

EntryOf(pattern) ==
    CHOOSE k \in 1..Len(CRASH_TRANSLATIONS) : CRASH_TRANSLATIONS[k][1] = pattern

\* C6: the result holds the explanation of every pattern occurring in the
\* lowercased text and nothing else, in table order; a text with exactly
\* 0xc0000005 and nvlddmkm yields the access violation explanation followed
\* by the NVIDIA kernel driver explanation.
C6_AllInTableOrder ==
    pc = "interp_done" =>
      LET occ == Occurring IN
        /\ \A k \in occ :
              \E i \in 1..Len(translations) : translations[i] = CRASH_TRANSLATIONS[k][2]
        /\ occ # {} => Len(translations) = Cardinality(occ)
        /\ \A i, j \in 1..Len(translations) :
              i < j => \E k1, k2 \in occ :
                          /\ k1 < k2
                          /\ translations[i] = CRASH_TRANSLATIONS[k1][2]
                          /\ translations[j] = CRASH_TRANSLATIONS[k2][2]
        /\ occ = {EntryOf("0xc0000005"), EntryOf("nvlddmkm")} =>
              translations =
                  << "ACCESS VIOLATION: Likely corrupted files or memory issue.",
                     "GPU ERROR: NVIDIA kernel driver crash, update drivers." >>

\* C6: a text naming the driver before the exception code
C6_Witness ==
    /\ pc = "interp_done"
    /\ log_message = "nvlddmkm.sys Exception 0xC0000005 "
    /\ Len(translations) = 2

\* C7: the result is the single sentinel exactly when no pattern occurs in
\* the text, and never holds the sentinel when a pattern occurs.
C7_SentinelIffNone ==
    pc = "interp_done" =>
      LET occ == Occurring IN
        /\ (translations = <<NoPattern>>) <=> (occ = {})
        /\ occ # {} =>
              \A i \in 1..Len(translations) : translations[i] # NoPattern

\* C7: a text, not empty, in which no pattern occurs
C7_Witness ==
    /\ pc = "interp_done"
    /\ log_message # ""
    /\ Occurring = {}
    /\ translations = <<NoPattern>>

\* C8: the result never holds the same explanation string twice.
C8_NoDuplicates ==
    pc = "interp_done" =>
        \A i, j \in 1..Len(translations) :
            i # j => translations[i] # translations[j]

(***************************************************************************)
(* _handle_search: the primary pass over the records read_application_logs *)
(* returned                                                                *)
(***************************************************************************)
exe_name_lower(path)  == Lower(BaseName(path))
exe_name_no_ext(path) == Lower(SplitExtRoot(BaseName(path)))
game_folder_lower(rt) == Lower(rt.name)
game_root_normalized(rt) == Lower(Replace(rt.path, Sep, AltSep))
message_normalized(log) == Replace(Lower(log.message), Sep, AltSep)

\* the exact test looking at the source only
ExactName_SourceOnly(log, path) ==
    Contains(Lower(log.source), exe_name_lower(path))

\* exe_name_lower in source_lower or exe_name_lower in message_lower
ExactName(log, path) ==
    \/ Contains(Lower(log.source), exe_name_lower(path))
    \/ Contains(Lower(log.message), exe_name_lower(path))

\* exe_name_no_ext in source_lower or exe_name_no_ext in message_lower
ExactNameNoExt(log, path) ==
    \/ Contains(Lower(log.source), exe_name_no_ext(path))
    \/ Contains(Lower(log.message), exe_name_no_ext(path))

ratio_source(log, path) == Ratio(exe_name_no_ext(path), Lower(log.source))

\* ratio_source > 0.6
FuzzySource(log, path) == AboveThreshold(ratio_source(log, path))

\* len(game_folder_lower) > 3 and game_folder_lower in message_lower
FolderName(log, rt) ==
    /\ Len(game_folder_lower(rt)) > 3
    /\ Contains(Lower(log.message), game_folder_lower(rt))

\* len(game_root_normalized) > 10 and game_root_normalized in message_normalized
PathContainment(log, rt) ==
    /\ Len(game_root_normalized(rt)) > 10
    /\ Contains(message_normalized(log), game_root_normalized(rt))

\* the for loop over message_lower.split(): the index of the first word
\* longer than 3 whose ratio is above the threshold, 0 when there is none
FuzzyWord(log, path) ==
    LET words == Split(Lower(log.message))
        hits  == {w \in 1..Len(words) :
                     /\ Len(words[w]) > 3
                     /\ AboveThreshold(Ratio(exe_name_no_ext(path), words[w]))}
    IN  IF hits = {} THEN 0 ELSE CHOOSE w \in hits : \A v \in hits : w <= v

\* match_reason with the game path test ahead of the folder name test
match_reason_PathFirst(log, path, rt) ==
    IF ExactName(log, path) THEN "exe name match"
    ELSE IF ExactNameNoExt(log, path) THEN "exe name (no ext) match"
    ELSE IF FuzzySource(log, path)
         THEN "fuzzy match (source: " \o Percent(ratio_source(log, path)) \o ")"
    ELSE IF PathContainment(log, rt) THEN "game path match"
    ELSE IF FolderName(log, rt)
         THEN "game folder name match (" \o rt.name \o ")"
    ELSE IF FuzzyWord(log, path) # 0 THEN "fuzzy match (word)"
    ELSE NoReason

\* match_reason after the tests of one record, NoReason when is_match
\* stays False
match_reason(log, path, rt) ==
    IF ExactName(log, path) THEN "exe name match"
    ELSE IF ExactNameNoExt(log, path) THEN "exe name (no ext) match"
    ELSE IF FuzzySource(log, path)
         THEN "fuzzy match (source: " \o Percent(ratio_source(log, path)) \o ")"
    ELSE IF FolderName(log, rt)
         THEN "game folder name match (" \o rt.name \o ")"
    ELSE IF PathContainment(log, rt) THEN "game path match"
    ELSE IF FuzzyWord(log, path) # 0
         THEN "fuzzy match (word: "
              \o Percent(Ratio(exe_name_no_ext(path),
                               Split(Lower(log.message))[FuzzyWord(log, path)]))
              \o ")"
    ELSE NoReason

\* log['match_reason'] = match_reason
WithReason(log, reason) ==
    [f \in DOMAIN log \cup {"match_reason"} |->
        IF f = "match_reason" THEN reason ELSE log[f]]

(***************************************************************************)
(* Specification SpecMatch: the primary pass on sets of records            *)
(***************************************************************************)
MaxRecords == 2

MatchExePaths ==
    { "C:/Games/Stellar Blade/bin/doom.exe", "D:/SB/doom.exe", "D:/Projects/abc/doom.exe" }

\* <<source, message>> of the records handed to the pass
SampleTexts ==
    { <<"Application Error", "doom.exe | 1.0.0.0 | nvlddmkm.dll | 0xc0000005">>,
      <<"Dom", "DOOM.EXE | 1.0">>,
      <<"doom.exe", "crash">>,
      <<"Application Hang", "Doom | stopped">>,
      <<"Doodle", "other.exe | 1.0">>,
      <<"Dom", "other.exe | 1.0">>,
      <<"Application Error", "other.exe | C:\\Games\\Stellar Blade\\bin\\x.dll">>,
      <<"Application Error", "other.exe | D:\\Projects\\abc\\x.dll">>,
      <<"Application Error", "other.exe | doodle | 1.0">>,
      <<"Application Error", "other.exe | dooxmabcd | doodle">> }

SampleLogs ==
    {[timestamp |-> time_threshold + 1, source |-> t[1], event_id |-> 1000,
      message |-> t[2], raw_data |-> ""] : t \in SampleTexts}

\* the records of the Application log in the runs of read_application_logs
RECURSIVE Rep(_, _)
Rep(s, n) == IF n = 0 THEN "" ELSE s \o Rep(s, n - 1)

\* an insert of 800 characters, as long as a list of loaded modules
LongInsert == Rep("0123456789", 80)

AppKinds ==
    { [EventType |-> EVENTLOG_ERROR_TYPE, EventID |-> 1000,
       SourceName |-> "Application Error",
       StringInserts |-> <<"sb.exe", "", LongInsert, "nvlddmkm.dll">>, Data |-> ""],
      [EventType |-> EVENTLOG_ERROR_TYPE, EventID |-> 1073742825,
       SourceName |-> "", StringInserts |-> <<"APPCRASH", "sb.exe">>, Data |-> "0xc0000005"],
      [EventType |-> EVENTLOG_ERROR_TYPE, EventID |-> 26,
       SourceName |-> "Application Popup", StringInserts |-> <<"sb.exe">>, Data |-> ""],
      [EventType |-> EVENTLOG_WARNING_TYPE, EventID |-> 1000,
       SourceName |-> "Application Error", StringInserts |-> <<"sb.exe">>, Data |-> ""] }

\* the paths in exe_path_input in the runs of _handle_search, and those of
\* them that exist
SearchPaths ==
    { "", "C:/Games/Stellar Blade/bin/sb.exe", "D:/SB/zq.exe", "C:/Old/sb.exe" }
ExistingPaths == { "C:/Games/Stellar Blade/bin/sb.exe", "D:/SB/zq.exe", "D:/SB" }

\* match_reason(log, path, get_game_root_folder(path)), worked out once for
\* each <<source, message>> and each path of the runs
PassTexts == SampleTexts \cup {<<SourceOf(e), MessageOf(e)>> : e \in AppKinds}
PassPaths == MatchExePaths \cup SearchPaths
ReasonOf ==
    Table([t \in PassTexts \X PassPaths |->
        match_reason([source |-> t[1][1], message |-> t[1][2]], t[2],
                     get_game_root_folder(t[2]))])

InitMatch ==
    /\ pc = "match_for"
    /\ exe_path \in MatchExePaths
    /\ root = get_game_root_folder(exe_path)
    /\ logs \in UNION {[1..n -> SampleLogs] : n \in 0..MaxRecords}
    /\ matching_logs = <<>>
    /\ log_idx = 0
    /\ InterpIdle /\ ReaderIdle /\ SearchIdle /\ UiIdle

\* one iteration of  for log in logs
MatchLog ==
    /\ pc = "match_for"
    /\ log_idx < Len(logs)
    /\ LET log    == logs[log_idx + 1]
           reason == ReasonOf[<<<<log.source, log.message>>, exe_path>>]
       IN  IF reason # NoReason
           THEN /\ logs' = [logs EXCEPT ![log_idx + 1] = WithReason(log, reason)]
                /\ matching_logs' = Append(matching_logs, WithReason(log, reason))
           ELSE UNCHANGED <<logs, matching_logs>>
    /\ log_idx' = log_idx + 1
    /\ UNCHANGED <<uiVars, searchVars, pc, rootVars, interpVars, fn, error_msg, log_no, hand, events,
                   ev_idx, event, event_time, past_threshold, chan, hist>>

\* the loop is over
MatchDone ==
    /\ pc = "match_for"
    /\ log_idx = Len(logs)
    /\ pc' = "match_done"
    /\ UNCHANGED <<uiVars, searchVars, rootVars, interpVars, matchVars, readVars>>

NextMatch == MatchLog \/ MatchDone
SpecMatch == InitMatch /\ [][NextMatch]_vars

HasReason(log) == "match_reason" \in DOMAIN log
StartsWith(s, p) == Len(s) >= Len(p) /\ SubSeq(s, 1, Len(p)) = p
ReasonIs(log, p) == HasReason(log) /\ StartsWith(log.match_reason, p)

\* C4: a handled record whose lowercased message holds the lowercase file
\* name of the executable is in the result with the reason "exe name match".
C4_ExactNameFirst ==
    \A i \in 1..log_idx :
        Contains(Lower(logs[i].message), Lower(BaseName(exe_path)))
            => /\ HasReason(logs[i])
               /\ logs[i].match_reason = "exe name match"
               /\ \E j \in 1..Len(matching_logs) : matching_logs[j] = logs[i]

\* C4: such a record whose source is also similar beyond the threshold
C4_Witness ==
    \E i \in 1..log_idx :
        /\ Contains(Lower(logs[i].message), Lower(BaseName(exe_path)))
        /\ 10 * ratio_source(logs[i], exe_path)[1] > 6 * ratio_source(logs[i], exe_path)[2]
        /\ ReasonIs(logs[i], "exe name match")

\* the ratios of the words longer than 3 of a record's message
WordRatios(log) ==
    LET words == Split(Lower(log.message))
    IN  {Ratio(exe_name_no_ext(exe_path), words[w]) :
            w \in {v \in 1..Len(words) : Len(words[v]) > 3}}

\* C5: for a handled record that no earlier tier matched, a source ratio of
\* exactly 0.60 gives no fuzzy source match and one of 0.61 or more does;
\* when the tiers before the word tier fail, words whose ratios are at most
\* 0.60 give no match and a word of 0.61 or more gives a fuzzy word match.
C5_StrictThreshold ==
    \A i \in 1..log_idx :
        LET log == logs[i]
            rs  == ratio_source(log, exe_path)
            wr  == WordRatios(log)
        IN  (~ExactName(log, exe_path) /\ ~ExactNameNoExt(log, exe_path)) =>
              /\ 5 * rs[1] = 3 * rs[2] => ~ReasonIs(log, "fuzzy match (source")
              /\ 100 * rs[1] >= 61 * rs[2] => ReasonIs(log, "fuzzy match (source")
              /\ (10 * rs[1] <= 6 * rs[2] /\ ~FolderName(log, root)
                    /\ ~PathContainment(log, root)) =>
                    /\ (\A r \in wr : 10 * r[1] <= 6 * r[2]) => ~HasReason(log)
                    /\ (\E r \in wr : 100 * r[1] >= 61 * r[2])
                          => ReasonIs(log, "fuzzy match (word")

\* C5: a handled record whose source ratio is exactly 0.60, left unmatched
C5_Witness ==
    \E i \in 1..log_idx :
        /\ ~ExactName(logs[i], exe_path) /\ ~ExactNameNoExt(logs[i], exe_path)
        /\ 5 * ratio_source(logs[i], exe_path)[1] = 3 * ratio_source(logs[i], exe_path)[2]
        /\ ~HasReason(logs[i])

(***************************************************************************)
(* The event log service and the parts the two readers share               *)
(***************************************************************************)
MaxBatch == 2      \* records in one ReadEventLog batch
MaxLog == 11       \* records in an event log read by read_general_logs
MaxAppLog == 4     \* records in the log read by read_application_logs
MaxSearchLog == 2  \* the same, when _handle_search calls read_application_logs

\* the number of records the Application log of read_application_logs holds
\* at most
AppLogBound == IF spc = "none" THEN MaxAppLog ELSE MaxSearchLog

\* TimeGenerated of the records: before, at and after time_threshold in the
\* Application log of read_application_logs, before and at it in the longer
\* logs of read_general_logs
AppTimes == {time_threshold - 1, time_threshold, time_threshold + 1}
GenTimes == {time_threshold - 1, time_threshold}

\* what OpenEventLog and ReadEventLog can do besides returning
Failures == {"PermissionError", "error 5", "error", "Exception"}

\* event_time < time_threshold, with <= in place of <
IsOlder_Inclusive(t) == t <= time_threshold

\* event_time < time_threshold
IsOlder(t) == t < time_threshold

\* len(logs) >= max_results, with > in place of >=
CapReached_OffByOne(l) == Len(l) > max_results

\* len(logs) >= max_results
CapReached(l) == Len(l) >= max_results

\* event.Data.decode('utf-8', errors='ignore'); the payloads here are ASCII
RawData(e) == e.Data

\* the records an event log can hold, newest first: a log is written in
\* time order, so a record is not newer than the one read before it
NextRecords(kinds, times) ==
    {[TimeGenerated |-> t, EventType |-> k.EventType, EventID |-> k.EventID,
      SourceName |-> k.SourceName, StringInserts |-> k.StringInserts, Data |-> k.Data] :
        t \in {u \in times : u <= chan.last}, k \in kinds}

\* ReadEventLog hands out the first records of the log again
Served_Rewind(n) == [chan EXCEPT !.served = 0]

\* the read position after ReadEventLog handed out a batch of n records
Served(n) == [chan EXCEPT !.served = @ + n]

\* the read position after the loop has taken record e
Taken(e) == [chan EXCEPT !.last = e.TimeGenerated]

\* a permission rejection: PermissionError, or pywintypes.error with winerror 5
Denied(failure) == failure \in {"PermissionError", "error 5"}

\* how a failure ended the scan of a log
FailedHow(failure) == IF Denied(failure) THEN "denied" ELSE "failed"

\* CloseEventLog(hand) in the finally clause; how is the way the scan of the
\* log ended: "end" of the log, "older" record, "cap", or a read that raised
\* ("denied", "failed")
Closed(how) == [hist EXCEPT !.closed = Append(@, hand), !.ended[hand] = how]

\* the scan of log name ended before a handle was there: OpenEventLog
\* returned nothing ("null") or raised ("denied", "failed")
NotOpened(name, how) == [hist EXCEPT !.ended[name] = how]

\* the for loop over a batch is left: events, event and event_time are
\* assigned again before they are read again
LoopLeft == events' = 0 /\ ev_idx' = 0 /\ event' = NoEvent /\ event_time' = 0

\* the handle stays open behind the function
HandleLeft_StillOpen == hand' = hand /\ chan' = chan

\* the handle is closed, and its read position goes with it
HandleLeft == hand' = NoHandle /\ chan' = ChanInit

(***************************************************************************)
(* read_application_logs                                                   *)
(***************************************************************************)
\* log_entry of read_application_logs
AppEntry(e, t) ==
    [timestamp |-> t, source |-> SourceOf(e), event_id |-> MaskedId(e),
     message |-> MessageOf(e), raw_data |-> RawData(e)]

\* the except clauses
AppError(failure) ==
    CASE failure \in {"PermissionError", "error 5"} -> AccessDenied
      [] failure = "error" -> WindowsError \o ErrText
      [] OTHER -> ReadingError \o ErrText

\* hand = win32evtlog.OpenEventLog(None, "Application") returns a handle
App_Open ==
    /\ pc = "a_open"
    /\ hand' = "Application"
    /\ chan' = ChanInit
    /\ hist' = [hist EXCEPT !.opened = Append(@, "Application")]
    /\ pc' = "a_while"
    /\ UNCHANGED <<uiVars, searchVars, rootVars, interpVars, matchVars, fn, logs, error_msg, log_no, events,
                   ev_idx, event, event_time, past_threshold>>

\* OpenEventLog returns no handle: return [], "Failed to open ..."
App_OpenNull ==
    /\ pc = "a_open"
    /\ logs' = <<>>
    /\ error_msg' = OpenFailed
    /\ pc' = "done"
    /\ UNCHANGED <<uiVars, searchVars, rootVars, interpVars, matchVars, fn, log_no, hand, events,
                   ev_idx, event, event_time, past_threshold, chan>>
    /\ hist' = NotOpened("Application", "null")

\* OpenEventLog raises: the except clause sets error_msg
App_OpenFail ==
    /\ pc = "a_open"
    /\ \E failure \in Failures :
          /\ error_msg' = AppError(failure)
          /\ hist' = NotOpened("Application", FailedHow(failure))
    /\ pc' = "done"
    /\ UNCHANGED <<uiVars, searchVars, rootVars, interpVars, matchVars, fn, logs, log_no, hand, events,
                   ev_idx, event, event_time, past_threshold, chan>>

\* events = ReadEventLog(hand, flags, 0) returns a batch
App_Read ==
    /\ pc = "a_while"
    /\ \E n \in 1..MaxBatch :
          /\ chan.served + n <= AppLogBound
          /\ events' = n
          /\ chan' = Served(n)
    /\ ev_idx' = 0
    /\ pc' = "a_event"
    /\ UNCHANGED <<uiVars, searchVars, rootVars, interpVars, matchVars, fn, logs, error_msg, log_no, hand,
                   event, event_time, past_threshold, hist>>

\* ReadEventLog returns nothing: break, close, return
App_ReadEnd ==
    /\ pc = "a_while"
    /\ LoopLeft /\ HandleLeft
    /\ hist' = Closed("end")
    /\ pc' = "done"
    /\ UNCHANGED <<uiVars, searchVars, rootVars, interpVars, matchVars, fn, logs, error_msg, log_no,
                   past_threshold>>

\* ReadEventLog raises: close in finally, the except clause sets error_msg
App_ReadFail ==
    /\ pc = "a_while"
    /\ \E failure \in Failures :
          /\ error_msg' = AppError(failure)
          /\ hist' = Closed(FailedHow(failure))
    /\ LoopLeft /\ HandleLeft
    /\ pc' = "done"
    /\ UNCHANGED <<uiVars, searchVars, rootVars, interpVars, matchVars, fn, logs, log_no, past_threshold>>

\* one iteration of  for event in events
App_Event ==
    /\ pc = "a_event"
    /\ ev_idx < events
    /\ \E e \in NextRecords(AppKinds, AppTimes) :
          IF IsOlder(e.TimeGenerated)
          THEN \* break; the test after the loop breaks the while; close
               /\ LoopLeft /\ HandleLeft
               /\ hist' = [Closed("older") EXCEPT !.older[hand] = e.TimeGenerated < time_threshold]
               /\ pc' = "done"
               /\ UNCHANGED logs
          ELSE /\ event' = e
               /\ event_time' = e.TimeGenerated
               /\ chan' = Taken(e)
               /\ logs' = IF /\ e.EventType = EVENTLOG_ERROR_TYPE
                             /\ MaskedId(e) \in APPLICATION_ERROR_EVENT_IDS
                          THEN Append(logs, AppEntry(e, e.TimeGenerated))
                          ELSE logs
               /\ ev_idx' = ev_idx + 1
               /\ hist' = [hist EXCEPT !.older[hand] = @ \/ e.TimeGenerated < time_threshold]
               /\ UNCHANGED <<pc, hand, events>>
    /\ UNCHANGED <<uiVars, searchVars, rootVars, interpVars, matchVars, fn, error_msg, log_no, past_threshold>>

\* the batch is used up:  if events and event_time < time_threshold: break
App_EndBatch ==
    /\ pc = "a_event"
    /\ ev_idx = events
    /\ IF IsOlder(event_time)
       THEN /\ HandleLeft
            /\ hist' = Closed("older")
            /\ pc' = "done"
       ELSE /\ pc' = "a_while"
            /\ UNCHANGED <<hand, hist, chan>>
    /\ LoopLeft
    /\ UNCHANGED <<uiVars, searchVars, rootVars, interpVars, matchVars, fn, logs, error_msg, log_no,
                   past_threshold>>

NextApp ==
    \/ App_Open \/ App_OpenNull \/ App_OpenFail
    \/ App_Read \/ App_ReadEnd \/ App_ReadFail
    \/ App_Event \/ App_EndBatch

(***************************************************************************)
(* read_general_logs                                                       *)
(***************************************************************************)
GenKinds ==
    { [EventType |-> EVENTLOG_ERROR_TYPE, EventID |-> 1073748824,
       SourceName |-> "Service Control Manager",
       StringInserts |-> <<"C:\\Games\\Stellar Blade\\bin\\sb.exe", "", "failed">>,
       Data |-> ""],
      [EventType |-> EVENTLOG_ERROR_TYPE, EventID |-> 7000,
       SourceName |-> "", StringInserts |-> <<"D:\\Projects\\ABC\\sb.dll">>, Data |-> "x"],
      [EventType |-> EVENTLOG_ERROR_TYPE, EventID |-> 11,
       SourceName |-> "disk", StringInserts |-> <<>>, Data |-> ""],
      [EventType |-> EVENTLOG_WARNING_TYPE, EventID |-> 7000,
       SourceName |-> "Service Control Manager",
       StringInserts |-> <<"C:\\Games\\Stellar Blade\\bin\\sb.exe">>, Data |-> ""] }

\* folder_lower and root_normalized
folder_lower(game_folder_name) == Lower(game_folder_name)
root_normalized(game_root_path) == Lower(Replace(game_root_path, Sep, AltSep))

\* is_related with the folder name test alone
is_related_FolderOnly(message, game_folder_name, game_root_path) ==
    /\ Len(folder_lower(game_folder_name)) > 3
    /\ Contains(Lower(message), folder_lower(game_folder_name))

\* is_related: the message mentions the game folder or the game path
is_related(message, game_folder_name, game_root_path) ==
    LET message_lower == Lower(message)
    IN  \/ /\ Len(folder_lower(game_folder_name)) > 3
           /\ Contains(message_lower, folder_lower(game_folder_name))
        \/ /\ Len(root_normalized(game_root_path)) > 10
           /\ Contains(Replace(message_lower, Sep, AltSep), root_normalized(game_root_path))

\* log_entry of read_general_logs
GenEntry(e, t, log_name) ==
    [timestamp |-> t, source |-> SourceOf(e), event_id |-> MaskedId(e),
     message |-> MessageOf(e), raw_data |-> RawData(e), log_source_name |-> log_name]

\* the error_msg of the except clauses
GenError(failure, log_name) ==
    CASE failure \in {"PermissionError", "error 5"} -> AccessDenied
      [] failure = "error" -> "Windows Error reading " \o log_name \o " log: " \o ErrText
      [] OTHER -> "Error reading " \o log_name \o " Event Log: " \o ErrText

\* break in every except clause
Fatal_Always(failure) == failure \in Failures

\* break in the except PermissionError clause only
Fatal_PermissionErrorOnly(failure) == failure = "PermissionError"

\* whether the except clause leaves the for loop (break) or goes on (continue)
Fatal(failure) == failure \in {"PermissionError", "error 5"}

\* the for loop over log_names is over, or left at its top by the cap: return
Gen_Return ==
    /\ pc = "g_for"
    /\ log_no > Len(log_names) \/ CapReached(logs)
    /\ pc' = "done"
    /\ UNCHANGED <<uiVars, searchVars, rootVars, interpVars, matchVars, readVars>>

\* hand = win32evtlog.OpenEventLog(None, log_name) returns a handle
Gen_Open ==
    /\ pc = "g_for"
    /\ log_no <= Len(log_names) /\ ~CapReached(logs)
    /\ hand' = log_names[log_no]
    /\ chan' = ChanInit
    /\ hist' = [hist EXCEPT !.opened = Append(@, log_names[log_no])]
    /\ pc' = "g_while"
    /\ UNCHANGED <<uiVars, searchVars, rootVars, interpVars, matchVars, fn, logs, error_msg, log_no, events,
                   ev_idx, event, event_time, past_threshold>>

\* OpenEventLog returns no handle: continue
Gen_OpenNull ==
    /\ pc = "g_for"
    /\ log_no <= Len(log_names) /\ ~CapReached(logs)
    /\ log_no' = log_no + 1
    /\ UNCHANGED <<uiVars, searchVars, pc, rootVars, interpVars, matchVars, fn, logs, error_msg, hand, events,
                   ev_idx, event, event_time, past_threshold, chan>>
    /\ hist' = NotOpened(log_names[log_no], "null")

\* OpenEventLog raises: break on access denied, continue otherwise
Gen_OpenFail ==
    /\ pc = "g_for"
    /\ log_no <= Len(log_names) /\ ~CapReached(logs)
    /\ \E failure \in Failures :
          /\ error_msg' = GenError(failure, log_names[log_no])
          /\ hist' = NotOpened(log_names[log_no], FailedHow(failure))
          /\ IF Fatal(failure)
             THEN pc' = "done" /\ UNCHANGED log_no
             ELSE log_no' = log_no + 1 /\ UNCHANGED pc
    /\ UNCHANGED <<uiVars, searchVars, rootVars, interpVars, matchVars, fn, logs, hand, events,
                   ev_idx, event, event_time, past_threshold, chan>>

\* top of  while True  with the cap reached: break, close, next log_name
Gen_WhileCap ==
    /\ pc = "g_while"
    /\ CapReached(logs)
    /\ LoopLeft /\ HandleLeft
    /\ hist' = Closed("cap")
    /\ log_no' = log_no + 1
    /\ pc' = "g_for"
    /\ UNCHANGED <<uiVars, searchVars, rootVars, interpVars, matchVars, fn, logs, error_msg, past_threshold>>

\* events = ReadEventLog(hand, flags, 0) returns a batch
Gen_Read ==
    /\ pc = "g_while"
    /\ ~CapReached(logs)
    /\ \E n \in 1..MaxBatch :
          /\ chan.served + n <= MaxLog
          /\ events' = n
          /\ chan' = Served(n)
    /\ ev_idx' = 0
    /\ past_threshold' = FALSE
    /\ pc' = "g_event"
    /\ UNCHANGED <<uiVars, searchVars, rootVars, interpVars, matchVars, fn, logs, error_msg, log_no, hand,
                   event, event_time, hist>>

\* ReadEventLog returns nothing: break, close, next log_name
Gen_ReadEnd ==
    /\ pc = "g_while"
    /\ ~CapReached(logs)
    /\ LoopLeft /\ HandleLeft
    /\ hist' = Closed("end")
    /\ log_no' = log_no + 1
    /\ pc' = "g_for"
    /\ UNCHANGED <<uiVars, searchVars, rootVars, interpVars, matchVars, fn, logs, error_msg, past_threshold>>

\* ReadEventLog raises: close in finally, then break or continue
Gen_ReadFail ==
    /\ pc = "g_while"
    /\ ~CapReached(logs)
    /\ \E failure \in Failures :
          /\ error_msg' = GenError(failure, hand)
          /\ hist' = Closed(FailedHow(failure))
          /\ IF Fatal(failure)
             THEN pc' = "done" /\ UNCHANGED log_no
             ELSE log_no' = log_no + 1 /\ pc' = "g_for"
    /\ LoopLeft /\ HandleLeft
    /\ UNCHANGED <<uiVars, searchVars, rootVars, interpVars, matchVars, fn, logs, past_threshold>>

\* an iteration of  for event in events  with the cap reached: break; no
\* older record was met, so on to the top of the while loop
Gen_EventCap ==
    /\ pc = "g_event"
    /\ ev_idx < events
    /\ CapReached(logs)
    /\ LoopLeft
    /\ pc' = "g_while"
    /\ UNCHANGED <<uiVars, searchVars, rootVars, interpVars, matchVars, fn, logs, error_msg, log_no, hand,
                   past_threshold, chan, hist>>

\* one iteration of  for event in events
Gen_Event ==
    /\ pc = "g_event"
    /\ ev_idx < events
    /\ ~CapReached(logs)
    /\ \E e \in NextRecords(GenKinds, GenTimes) :
          IF IsOlder(e.TimeGenerated)
          THEN \* past_threshold = True; break; break; close; next log_name
               /\ past_threshold' = TRUE
               /\ LoopLeft /\ HandleLeft
               /\ hist' = [Closed("older") EXCEPT !.older[hand] = e.TimeGenerated < time_threshold]
               /\ log_no' = log_no + 1
               /\ pc' = "g_for"
               /\ UNCHANGED logs
          ELSE /\ event' = e
               /\ event_time' = e.TimeGenerated
               /\ chan' = Taken(e)
               /\ logs' = IF /\ e.EventType = EVENTLOG_ERROR_TYPE
                             /\ is_related(MessageOf(e), root.name, root.path)
                          THEN Append(logs, GenEntry(e, e.TimeGenerated, hand))
                          ELSE logs
               /\ ev_idx' = ev_idx + 1
               /\ hist' = [hist EXCEPT !.older[hand] = @ \/ e.TimeGenerated < time_threshold]
               /\ UNCHANGED <<pc, hand, log_no, past_threshold, events>>
    /\ UNCHANGED <<uiVars, searchVars, rootVars, interpVars, matchVars, fn, error_msg>>

\* the batch is used up and past_threshold is False: next ReadEventLog
Gen_EndBatch ==
    /\ pc = "g_event"
    /\ ev_idx = events
    /\ LoopLeft
    /\ pc' = "g_while"
    /\ UNCHANGED <<uiVars, searchVars, rootVars, interpVars, matchVars, fn, logs, error_msg, log_no, hand,
                   past_threshold, chan, hist>>

NextGen ==
    \/ Gen_Return \/ Gen_Open \/ Gen_OpenNull \/ Gen_OpenFail
    \/ Gen_WhileCap \/ Gen_Read \/ Gen_ReadEnd \/ Gen_ReadFail
    \/ Gen_EventCap \/ Gen_Event \/ Gen_EndBatch

(***************************************************************************)
(* Specification SpecLogs: one call of read_application_logs(days) or of   *)
(* read_general_logs(days, game_folder_name, game_root_path)               *)
(***************************************************************************)
LogExePaths ==
    { "C:/Games/Stellar Blade/bin/sb.exe", "D:/SB/sb.exe", "D:/Projects/abc/sb.exe" }

InitLogs ==
    /\ exe_path \in LogExePaths
    /\ root = get_game_root_folder(exe_path)
    /\ \/ fn = "read_application_logs" /\ pc = "a_open" /\ log_no = 0
          /\ exe_path = "C:/Games/Stellar Blade/bin/sb.exe"
       \/ fn = "read_general_logs" /\ pc = "g_for" /\ log_no = 1
    /\ logs = <<>>
    /\ error_msg = NoError
    /\ hand = NoHandle
    /\ events = 0 /\ ev_idx = 0 /\ event = NoEvent /\ event_time = 0
    /\ past_threshold = FALSE
    /\ chan = ChanInit
    /\ hist = HistInit
    /\ InterpIdle /\ MatchIdle /\ SearchIdle /\ UiIdle

NextLogs == NextApp \/ NextGen
SpecLogs == InitLogs /\ [][NextLogs]_vars

\* the channels a reader can open
Channels == {"Application", "System"}

\* the record of this iteration passes the filters that follow the time test
Eligible(e) ==
    /\ e.EventType = EVENTLOG_ERROR_TYPE
    /\ IF fn = "read_application_logs"
       THEN MaskedId(e) \in APPLICATION_ERROR_EVENT_IDS
       ELSE is_related(MessageOf(e), root.name, root.path)

\* an iteration of  for event in events  went past the time test
Processed == ev_idx' = ev_idx + 1

\* C9: in both readers a record stamped exactly time_threshold is processed,
\* and accepted when it passes the filters, and only a record older than
\* time_threshold ends the scan at an iteration; that record is not accepted,
\* its channel is closed in the same step and never read again, so that no
\* later record of the batch is examined and no further batch is read from it.
C9_CutoffBoundary ==
    /\ [](\A i \in 1..Len(logs) : logs[i].timestamp >= time_threshold)
    /\ [](\A ch \in Channels : hist.older[ch] => hand # ch)
    /\ [][ /\ (Processed /\ event'.TimeGenerated = time_threshold /\ Eligible(event'))
              => /\ Len(logs') = Len(logs) + 1
                 /\ SubSeq(logs', 1, Len(logs)) = logs
                 /\ logs'[Len(logs')].timestamp = time_threshold
           /\ (pc \in {"a_event", "g_event"} /\ ev_idx < events /\ hand' # hand)
              => hist'.older[hand]
           /\ \A ch \in Channels :
                 (hist'.older[ch] /\ ~hist.older[ch])
                 => /\ hand = ch /\ hand' = NoHandle
                    /\ logs' = logs
                    /\ hist'.closed = Append(hist.closed, ch)
                    /\ chan'.served = 0 ]_vars

\* a record stamped exactly time_threshold of the Application log was
\* accepted, an older record then ended the scan of that log, and the sweep
\* has moved on to the System log
C9_Witness ==
    /\ fn = "read_general_logs"
    /\ hist.older["Application"]
    /\ hand = "System"
    /\ \E i \in 1..Len(logs) :
          /\ logs[i].timestamp = time_threshold
          /\ logs[i].log_source_name = "Application"

\* C10: at every point of read_general_logs, the return included, logs holds
\* at most max_results (10) records, the Application and the System records
\* counted together.
C10_AtMostTen == fn = "read_general_logs" => Len(logs) <= max_results

\* the tenth record was accepted from the System log after records of the
\* Application log, in the middle of a batch that has a further record
C10_Witness ==
    /\ fn = "read_general_logs"
    /\ Len(logs) = max_results
    /\ pc = "g_event" /\ ev_idx < events
    /\ logs[1].log_source_name = "Application"
    /\ logs[max_results].log_source_name = "System"

\* OpenEventLog has returned a handle of log name; a handle of it was closed
WasOpened(name) == \E i \in 1..Len(hist.opened) : hist.opened[i] = name
WasClosed(name) == \E i \in 1..Len(hist.closed) : hist.closed[i] = name

\* C11, as stated: in read_general_logs the System log is opened only after
\* the scan of the Application log ended at the end of the log, at a record
\* older than time_threshold or at the cap, the executions in which opening
\* or reading the Application log fails included.
C11_SystemAfterExhausted ==
    (fn = "read_general_logs" /\ WasOpened("System"))
    => hist.ended["Application"] \in {"end", "older", "cap"}

\* C11, amended: the logs are opened in the order Application, System, each
\* at most once and never both at a time; when the System log is opened the
\* scan of the Application log is over, its handle, if there was one, is
\* closed, and the cap is not reached.  The scan is over by the end of the
\* log, by an older record, or by OpenEventLog returning nothing or a failure
\* that is no permission rejection; after the cap or a permission rejection
\* the System log is not opened at all.
C11_SystemAfterApplicationLeft ==
    /\ [](fn = "read_general_logs" =>
            /\ hist.opened \in {<<>>, <<"Application">>, <<"System">>,
                                <<"Application", "System">>}
            /\ WasOpened("System") =>
                  /\ hist.ended["Application"] \in {"end", "older", "null", "failed"}
                  /\ WasOpened("Application") <=> WasClosed("Application")
                  /\ hand # "Application")
    /\ [][(fn = "read_general_logs" /\ WasOpened("System")' /\ ~WasOpened("System"))
          => /\ hand = NoHandle /\ hand' = "System"
             /\ Len(logs) < max_results
             /\ hist.ended["Application"] # "no"]_vars

\* a read of the Application log failed after records of it were accepted,
\* and the sweep went on to open the System log
C11_Witness ==
    /\ fn = "read_general_logs"
    /\ hand = "System"
    /\ hist.ended["Application"] = "failed"
    /\ WasClosed("Application")
    /\ Len(logs) > 0

\* opening or reading log name was rejected for lack of permission
DeniedAt(name) == hist.ended[name] = "denied"

\* C12: when OpenEventLog or ReadEventLog fails with a permission rejection
\* (PermissionError, or pywintypes.error with code 5), the function is at its
\* return with no handle open, error_msg is the access-denied text, no log
\* after the rejected one was opened or tried, and nothing happens afterwards.
C12_DeniedStopsSweep ==
    /\ [](\A ch \in Channels : DeniedAt(ch) =>
             /\ pc = "done"
             /\ error_msg = AccessDenied
             /\ hand = NoHandle
             /\ ch = "Application" =>
                   (~WasOpened("System") /\ hist.ended["System"] = "no"))
    /\ [][~(\E ch \in Channels : DeniedAt(ch))]_vars

\* a read of the System log was rejected after a read of the Application log
\* had failed otherwise: the error returned is the access-denied one
C12_Witness ==
    /\ fn = "read_general_logs"
    /\ hist.ended["Application"] = "failed"
    /\ WasOpened("System") /\ DeniedAt("System")
    /\ pc = "done"
    /\ error_msg = AccessDenied

\* the Application log could not be opened (no handle, or a failure) or read,
\* for a reason that is no
\* permission rejection
ApplicationFailed == hist.ended["Application"] \in {"null", "failed"}

\* C13: in read_general_logs a failure to open or read the Application log
\* that is no permission rejection does not end the sweep: the step of the
\* failure goes to the top of the for loop with System as the next log_name
\* and with the records accepted so far, fewer than the cap, the function
\* does not return before OpenEventLog was called for the System log, and every record accepted from the System log is appended to logs
\* and stays in it up to the return.
C13_NonFatalGoesOn ==
    /\ [](fn = "read_general_logs" /\ ApplicationFailed /\ pc = "done"
            => hist.ended["System"] # "no")
    /\ [][fn = "read_general_logs" =>
            /\ (ApplicationFailed' /\ ~ApplicationFailed)
               => /\ pc' = "g_for" /\ log_names[log_no'] = "System"
                  /\ logs' = logs /\ Len(logs') < max_results
            /\ Len(logs') >= Len(logs) /\ SubSeq(logs', 1, Len(logs)) = logs]_vars

\* a read of the Application log failed, the System log was then read to its
\* end, and the function returns records of the System log with the error of
\* the Application log
C13_Witness ==
    /\ fn = "read_general_logs"
    /\ ApplicationFailed
    /\ hist.ended["System"] = "end"
    /\ pc = "done"
    /\ error_msg = GenError("error", "Application")
    /\ \E i \in 1..Len(logs) : logs[i].log_source_name = "System"

(***************************************************************************)
(* _handle_search: the whole handler, with the readers it calls            *)
(***************************************************************************)
\* the paths typed into exe_path_input, and the ones os.path.exists accepts
\* os.path.exists(exe_path) that holds of every path
Exists_Always(path) == path \in SearchPaths

\* os.path.exists(exe_path)
Exists(path) == path \in ExistingPaths

\* if not matching_logs  that holds of every list
NoMatches_Always(ml) == Len(ml) >= 0

\* if not matching_logs
NoMatches(ml) == ml = <<>>

\* the texts of the two input errors (the leading symbol left out)
NoPathText == "Please select an executable file."
NoFileText(path) == "File does not exist: " \o path

\* the sections of the report, in the order  result +=  appends them
InputSection(text) == [kind |-> "input", text |-> text]
ErrorSection(text) == [kind |-> "error", text |-> text]

\* text[:n] + "..." if len(text) > n else text
Shown(text, n) == IF Len(text) > n THEN SubSeq(text, 1, n) \o "..." ELSE text

DETAIL_LABELS ==
    << "Faulting application name", "Application version", "Application timestamp",
       "Faulting module name", "Module version", "Module timestamp",
       "Exception code", "Fault offset", "Faulting process ID",
       "Application start time", "Faulting application path",
       "Faulting module path", "Report ID" >>

RECURSIVE SplitOn(_, _)
\* str.split(sep): the pieces of s between the occurrences of sep, found
\* from the left
SplitOn(s, sep) ==
    LET at == {i \in 1..(Len(s) - Len(sep) + 1) : SubSeq(s, i, i + Len(sep) - 1) = sep}
    IN  IF at = {} THEN <<s>>
        ELSE LET i == CHOOSE j \in at : \A k \in at : j <= k
             IN  <<SubSeq(s, 1, i - 1)>> \o SplitOn(SubSeq(s, i + Len(sep), Len(s)), sep)

\* str.strip()
Strip(s) ==
    LET solid == {i \in 1..Len(s) : ~IsSpace(SubSeq(s, i, i))}
    IN  IF solid = {} THEN ""
        ELSE SubSeq(s, CHOOSE i \in solid : \A k \in solid : i <= k,
                       CHOOSE j \in solid : \A k \in solid : j >= k)

\* the  Crash Details  lines: for idx, part in enumerate(msg_parts[:13]),
\* a line  label: part.strip()  for each part that is not blank
DetailLines(message) ==
    LET msg_parts == SplitOn(message, " | ")
        shown == IF Len(msg_parts) > Len(DETAIL_LABELS) THEN Len(DETAIL_LABELS)
                 ELSE Len(msg_parts)
        lines == [idx \in 1..shown |->
                     [label |-> DETAIL_LABELS[idx], value |-> Strip(msg_parts[idx])]]
        NotBlank(line) == line.value # ""
    IN  SelectSeq(lines, NotBlank)

\* the lines of an  Event #i  block of the matching records that come from
\* the message and the payload: the message is cut at 800 characters, and
\* the cut message is the one decomposed and interpreted
CrashLines(msg, raw_data) ==
    LET message == Shown(msg, 800)
    IN  [message |-> message, details |-> DetailLines(message),
         translations |-> interpret_crash(message \o " " \o raw_data)]

\* CrashLines, worked out once for each record of the Application log
CrashLinesOf ==
    Table([t \in {<<MessageOf(e), RawData(e)>> : e \in AppKinds} |-> CrashLines(t[1], t[2])])

\* one  Event #i  block of the matching records
CrashSection(i, log) ==
    LET lines == CrashLinesOf[<<log.message, log.raw_data>>]
    IN  [kind |-> "crash", no |-> i, timestamp |-> log.timestamp, source |-> log.source,
         event_id |-> log.event_id, match_reason |-> log.match_reason,
         message |-> lines.message, details |-> lines.details,
         raw_data |-> Shown(log.raw_data, 100),
         translations |-> lines.translations]

\* the lines of an  Event #i [log_source_name]  block of the general records
\* that come from the message and the payload: the message is cut at 500
\* characters, the interpretation reads all of it
GeneralLines(msg, raw_data) ==
    [message |-> Shown(msg, 500),
     translations |-> interpret_crash(msg \o " " \o raw_data)]

\* GeneralLines, worked out once for each record of the two logs
GeneralLinesOf ==
    Table([t \in {<<MessageOf(e), RawData(e)>> : e \in GenKinds} |-> GeneralLines(t[1], t[2])])

\* one  Event #i [log_source_name]  block of the general records
GeneralSection(i, log) ==
    LET lines == GeneralLinesOf[<<log.message, log.raw_data>>]
    IN  [kind |-> "event", no |-> i, log_source_name |-> log.log_source_name,
         timestamp |-> log.timestamp, source |-> log.source, event_id |-> log.event_id,
         message |-> lines.message, translations |-> lines.translations]

\* the else branch of  if not matching_logs
FoundReport(ml, total, exe_name) ==
    <<[kind |-> "found", count |-> Len(ml), exe_name |-> exe_name]>>
    \o [i \in 1..Len(ml) |-> CrashSection(i, ml[i])]
    \o <<[kind |-> "summary", count |-> Len(ml), total |-> total]>>

\* the branches after the call of read_general_logs
GeneralReport(gl, ge, total, exe_name, folder) ==
    IF ge # NoError THEN <<ErrorSection(ge)>>
    ELSE IF gl # <<>>
    THEN <<[kind |-> "general", count |-> Len(gl), folder |-> folder]>>
         \o [i \in 1..Len(gl) |-> GeneralSection(i, gl[i])]
         \o <<[kind |-> "general summary", count |-> Len(gl)]>>
    ELSE <<[kind |-> "nothing", exe_name |-> exe_name, total |-> total]>>

\* if not exe_path / if not os.path.exists(exe_path): return the message
Search_InputError ==
    /\ spc = "s_start"
    /\ exe_path = "" \/ ~Exists(exe_path)
    /\ result' = <<InputSection(IF exe_path = "" THEN NoPathText
                                ELSE NoFileText(exe_path))>>
    /\ spc' = "s_return"
    /\ UNCHANGED <<uiVars, pc, rootVars, interpVars, matchVars, readVars, scanned, general_logs,
                   general_error, calls>>

\* get_game_root_folder(path), worked out once for each path of the runs
RootOf ==
    Table([path \in SearchPaths |-> get_game_root_folder(path)])

\* the names and the game root are worked out; read_application_logs(days)
\* is called
Search_ReadPrimary ==
    /\ spc = "s_start"
    /\ exe_path # "" /\ Exists(exe_path)
    /\ root' = RootOf[exe_path]
    /\ calls' = Append(calls, "read_application_logs")
    /\ fn' = "read_application_logs"
    /\ logs' = <<>> /\ error_msg' = NoError
    /\ pc' = "a_open"
    /\ spc' = "s_read"
    /\ UNCHANGED <<uiVars, exe_path, interpVars, matchVars, log_no, hand, events, ev_idx, event,
                   event_time, past_threshold, chan, hist, result, scanned,
                   general_logs, general_error>>

\* read_application_logs returned an error: the report is the error, return
Search_PrimaryError ==
    /\ spc = "s_read" /\ pc = "done"
    /\ error_msg # NoError
    /\ result' = <<ErrorSection(error_msg)>>
    /\ fn' = "_handle_search"
    /\ spc' = "s_return"
    /\ UNCHANGED <<uiVars, pc, rootVars, interpVars, matchVars, logs, error_msg, log_no, hand,
                   events, ev_idx, event, event_time, past_threshold, chan, hist,
                   scanned, general_logs, general_error, calls>>

\* read_application_logs returned no error: matching_logs = [], the for loop
\* over logs starts
Search_PrimaryPass ==
    /\ spc = "s_read" /\ pc = "done"
    /\ error_msg = NoError
    /\ matching_logs' = <<>> /\ log_idx' = 0
    /\ fn' = "_handle_search"
    /\ pc' = "match_for"
    /\ spc' = "s_pass"
    /\ UNCHANGED <<uiVars, rootVars, interpVars, logs, error_msg, log_no, hand, events, ev_idx,
                   event, event_time, past_threshold, chan, hist, result, scanned,
                   general_logs, general_error, calls>>

\* matching_logs is not empty: the report of the matching records, return
Search_Found ==
    /\ spc = "s_pass" /\ pc = "match_done"
    /\ ~NoMatches(matching_logs)
    /\ result' = FoundReport(matching_logs, Len(logs), BaseName(exe_path))
    /\ spc' = "s_return"
    /\ UNCHANGED <<uiVars, pc, rootVars, interpVars, matchVars, readVars, scanned, general_logs,
                   general_error, calls>>

\* matching_logs is empty: read_general_logs(days, game_folder_name,
\* game_root_path) is called
Search_Sweep ==
    /\ spc = "s_pass" /\ pc = "match_done"
    /\ NoMatches(matching_logs)
    /\ calls' = Append(calls, "read_general_logs")
    /\ scanned' = Len(logs)
    /\ fn' = "read_general_logs"
    /\ logs' = <<>> /\ error_msg' = NoError
    /\ log_no' = 1
    /\ past_threshold' = FALSE
    /\ hist' = HistInit
    /\ pc' = "g_for"
    /\ spc' = "s_sweep"
    /\ UNCHANGED <<uiVars, rootVars, interpVars, matchVars, hand, events, ev_idx, event,
                   event_time, chan, result, general_logs, general_error>>

\* read_general_logs returned: the error, the general records or the
\* nothing-found text, return
Search_SweepReport ==
    /\ spc = "s_sweep" /\ pc = "done"
    /\ general_logs' = logs
    /\ general_error' = error_msg
    /\ result' = GeneralReport(logs, error_msg, scanned, BaseName(exe_path), root.name)
    /\ fn' = "_handle_search"
    /\ spc' = "s_return"
    /\ UNCHANGED <<uiVars, pc, rootVars, interpVars, matchVars, logs, error_msg, log_no, hand,
                   events, ev_idx, event, event_time, past_threshold, chan, hist,
                   scanned, calls>>

NextSearch ==
    \/ Search_InputError \/ Search_ReadPrimary
    \/ Search_PrimaryError \/ Search_PrimaryPass
    \/ Search_Found \/ Search_Sweep \/ Search_SweepReport

(***************************************************************************)
(* Specification SpecSearch: one call of _handle_search                    *)
(***************************************************************************)
InitSearch ==
    /\ exe_path \in SearchPaths
    /\ root = <<>>
    /\ pc = "search"
    /\ spc = "s_start"
    /\ result = <<>> /\ scanned = 0
    /\ general_logs = <<>> /\ general_error = NoError /\ calls = <<>>
    /\ logs = <<>>
    /\ InterpIdle /\ MatchIdle /\ ReaderIdle /\ UiIdle

SpecSearch == InitSearch /\ [][NextSearch \/ NextApp \/ NextMatch \/ NextGen]_vars

\* the report has a section of the given kind; it has the error text
HasSection(kind) == \E k \in 1..Len(result) : result[k].kind = kind
HasError(text) ==
    \E k \in 1..Len(result) : result[k].kind = "error" /\ result[k].text = text

\* the report renders record log in a block of the given kind
Renders(kind, log) ==
    \E k \in 1..Len(result) :
        /\ result[k].kind = kind
        /\ result[k].timestamp = log.timestamp
        /\ result[k].source = log.source
        /\ result[k].event_id = log.event_id
        /\ result[k].message = Shown(log.message, IF kind = "crash" THEN 800 ELSE 500)

\* C14: when read_application_logs returns an error together with records,
\* or read_general_logs does, the report _handle_search returns has the
\* error text and also a block for each of those records.
C14_PartialRecordsRendered ==
    spc = "s_return" =>
        /\ (calls = <<"read_application_logs">> /\ error_msg # NoError /\ logs # <<>>)
           => /\ HasError(error_msg)
              /\ \A i \in 1..Len(logs) : Renders("crash", logs[i])
        /\ (general_error # NoError /\ general_logs # <<>>)
           => /\ HasError(general_error)
              /\ \A i \in 1..Len(general_logs) : Renders("event", general_logs[i])

\* the path is empty or names nothing that exists
BadPath == exe_path = "" \/ exe_path \notin ExistingPaths

\* C15: when exe_path is empty or does not exist, _handle_search goes from
\* its start straight to its return: no reader is called, no event log is
\* opened, and the report is the input error alone.
C15_InputErrorNoScan ==
    BadPath =>
        /\ spc \in {"s_start", "s_return"}
        /\ calls = <<>> /\ fn = "none"
        /\ hist = HistInit /\ hand = NoHandle
        /\ spc = "s_return" =>
              result = <<InputSection(IF exe_path = "" THEN NoPathText
                                      ELSE NoFileText(exe_path))>>

\* the path of a file that is not there: the report is returned
C15_Witness ==
    /\ exe_path = "C:/Old/sb.exe"
    /\ spc = "s_return"
    /\ result = <<InputSection("File does not exist: C:/Old/sb.exe")>>

\* read_general_logs was called in this search
SweepCalled == \E i \in 1..Len(calls) : calls[i] = "read_general_logs"

Low16(e) == e.EventID % (2 ^ 16)

\* a record of Error severity whose identifier has 1000, 1001 or 1002 in its
\* low 16 bits
CrashRecord(e) == e.EventType = EVENTLOG_ERROR_TYPE /\ Low16(e) \in {1000, 1001, 1002}

\* C17: read_application_logs changes logs only at an iteration over a
\* record that is not older than time_threshold, and there it appends the
\* record exactly when it has Error severity and its identifier masked to
\* the low 16 bits is 1000, 1001 or 1002, whatever the high 16 bits are, with
\* the masked value as event_id; so logs is, in scan order, the records of
\* that kind scanned before the first older record.
C17_ExactlyCrashIds ==
    /\ [](fn = "read_application_logs" =>
            \A i \in 1..Len(logs) :
                /\ logs[i].event_id \in {1000, 1001, 1002}
                /\ logs[i].timestamp >= time_threshold)
    /\ [][fn = "read_application_logs" =>
            IF pc = "a_event" /\ Processed
            THEN /\ event'.TimeGenerated >= time_threshold
                 /\ logs' = IF CrashRecord(event')
                            THEN Append(logs, [timestamp |-> event'.TimeGenerated,
                                               source    |-> SourceOf(event'),
                                               event_id  |-> Low16(event'),
                                               message   |-> MessageOf(event'),
                                               raw_data  |-> event'.Data])
                            ELSE logs
            ELSE logs' = logs]_vars

\* a record with identifier 0x40000000 + 1001 was retained with event_id
\* 1001 after another record was scanned and left out
C17_Witness ==
    /\ fn = "read_application_logs"
    /\ pc = "a_event"
    /\ event.EventID = 1073742825
    /\ Len(logs) = 1
    /\ logs[1].event_id = 1001
    /\ chan.served = 2 /\ ev_idx = 2

\* C18: in read_general_logs, from a state with max_results (10) records in
\* logs on, no record is examined (the loop takes none, logs stays as it
\* is), no batch is requested (the read position does not advance) and no
\* log is opened, also when the tenth record was accepted in the middle of
\* a batch; and when the scan of the Application log ended at the cap the
\* System log is not opened, nor tried.
C18_NothingAfterCap ==
    /\ [][(fn = "read_general_logs" /\ Len(logs) >= max_results) =>
            /\ logs' = logs
            /\ ~Processed
            /\ chan' \in {chan, ChanInit}
            /\ hist'.opened = hist.opened
            /\ hist'.older = hist.older
            /\ \A ch \in Channels : hist'.ended[ch] \in {hist.ended[ch], "cap"}]_vars
    /\ [](fn = "read_general_logs" /\ hist.ended["Application"] = "cap"
            => ~WasOpened("System") /\ hist.ended["System"] = "no")

\* the Application log alone gave ten records, the tenth in the middle of a
\* batch: a record of the batch is still waiting, the System log is not opened
C18_Witness ==
    /\ fn = "read_general_logs"
    /\ Len(logs) = max_results
    /\ pc = "g_event" /\ ev_idx < events
    /\ hand = "Application"
    /\ hist.opened = <<"Application">>

\* the tiers a record satisfies, numbered in the fixed order, and the
\* beginning of the reason each tier records
TierHolds(t, log) ==
    CASE t = 1 -> ExactName(log, exe_path)
      [] t = 2 -> ExactNameNoExt(log, exe_path)
      [] t = 3 -> FuzzySource(log, exe_path)
      [] t = 4 -> FolderName(log, root)
      [] t = 5 -> PathContainment(log, root)
      [] t = 6 -> FuzzyWord(log, exe_path) # 0
TierLabels ==
    << "exe name match", "exe name (no ext) match", "fuzzy match (source",
       "game folder name match", "game path match", "fuzzy match (word" >>
TiersOf(log) == {t \in 1..6 : TierHolds(t, log)}

\* C19: every record the primary pass has handled is labelled with the
\* first tier it satisfies in the order ExactName, ExactNameNoExt,
\* FuzzySource, FolderName, PathContainment, FuzzyWord; a record satisfying
\* no tier has no label; and matching_logs is, in order, the labelled
\* records.
C19_FirstTierWins ==
    /\ \A i \in 1..log_idx :
          LET sat == TiersOf(logs[i])
          IN  IF sat = {}
              THEN ~HasReason(logs[i])
              ELSE LET first == CHOOSE t \in sat : \A u \in sat : t <= u
                   IN  /\ ReasonIs(logs[i], TierLabels[first])
                       /\ \A u \in 1..6 : ReasonIs(logs[i], TierLabels[u]) => u = first
    /\ matching_logs = SelectSeq(SubSeq(logs, 1, log_idx), HasReason)

\* a handled record that satisfies the folder name tier and the path tier and
\* no tier before them, labelled with the folder name tier, next to a record
\* that satisfies no tier and is left out
C19_Witness ==
    /\ pc = "match_done"
    /\ \E i \in 1..log_idx :
          /\ TiersOf(logs[i]) = {4, 5}
          /\ ReasonIs(logs[i], "game folder name match")
    /\ \E i \in 1..log_idx : TiersOf(logs[i]) = {} /\ ~HasReason(logs[i])
    /\ Len(matching_logs) = 1

\* the accept condition of the general sweep on a message: the lowercased
\* message holds the lowercased folder name, longer than 3, or the
\* lowercased message with "/" for "\" holds the root path written the same
\* way, longer than 10
AcceptCondition(message) ==
    LET folder == Lower(root.name)
        path   == Lower(Replace(root.path, Sep, AltSep))
    IN  \/ Len(folder) > 3 /\ Contains(Lower(message), folder)
        \/ Len(path) > 10 /\ Contains(Replace(Lower(message), Sep, AltSep), path)

\* C20: every record in the list of read_general_logs is not older than
\* time_threshold and has a message that satisfies the accept condition;
\* the list changes only at an iteration over a record that is not older
\* than time_threshold, made while the cap is not reached, and there the
\* record is appended, with the name of its log, exactly when it has Error
\* severity and its message satisfies the accept condition.
C20_ExactlyRelatedErrors ==
    /\ [](fn = "read_general_logs" =>
            \A i \in 1..Len(logs) :
                /\ logs[i].timestamp >= time_threshold
                /\ AcceptCondition(logs[i].message))
    /\ [][fn = "read_general_logs" =>
            IF pc = "g_event" /\ Processed
            THEN /\ Len(logs) < max_results
                 /\ event'.TimeGenerated >= time_threshold
                 /\ logs' = IF /\ event'.EventType = EVENTLOG_ERROR_TYPE
                               /\ AcceptCondition(MessageOf(event'))
                            THEN Append(logs, [timestamp |-> event'.TimeGenerated,
                                               source    |-> SourceOf(event'),
                                               event_id  |-> Low16(event'),
                                               message   |-> MessageOf(event'),
                                               raw_data  |-> event'.Data,
                                               log_source_name |-> hand])
                            ELSE logs
            ELSE logs' = logs]_vars

\* the folder name abc is too short to count; a record of the System log
\* whose message holds the root path was accepted, and an Error record that
\* holds neither was then scanned and left out
C20_Witness ==
    /\ fn = "read_general_logs"
    /\ root.name = "abc"
    /\ hand = "System"
    /\ pc = "g_event" /\ ev_idx = 2
    /\ chan.served = 2
    /\ Len(logs) = 1
    /\ logs[1].log_source_name = "System"
    /\ ~AcceptCondition(MessageOf(event)) /\ event.EventType = EVENTLOG_ERROR_TYPE

\* the patterns of the signature table occurring in the lowercased text
PatternsIn(text) ==
    {k \in 1..Len(CRASH_TRANSLATIONS) : Contains(Lower(text), CRASH_TRANSLATIONS[k][1])}

\* the block of the report for the i-th matching record
BlockOf(i) == result[i + 1]

\* the report of the matching records has been returned
FoundReturned == spc = "s_return" /\ HasSection("found")

\* C21: for every matching record of the report, every signature pattern
\* occurring anywhere in the record's whole message followed by its decoded
\* payload, beyond the 800th character too, has its explanation among the
\* interpretation lines of the record's block.
C21_WholeMessageInterpreted ==
    FoundReturned =>
        \A i \in 1..Len(matching_logs) :
            \A k \in PatternsIn(matching_logs[i].message \o " " \o matching_logs[i].raw_data) :
                \E t \in 1..Len(BlockOf(i).translations) :
                    BlockOf(i).translations[t] = CRASH_TRANSLATIONS[k][2]

\* the records of the log whose message is the given one
KindsOf(message) == {e \in AppKinds : MessageOf(e) = message}

\* C22: in the block of a matching record, the value printed under the k-th
\* label is the record's k-th string insert: an empty earlier insert leaves
\* its slot out and the later inserts keep their own labels; nothing beyond
\* the 13th insert is printed.
C22_LabelsKeepTheirFields ==
    FoundReturned =>
        \A i \in 1..Len(matching_logs) :
            \A e \in KindsOf(matching_logs[i].message) :
                \A n \in 1..Len(BlockOf(i).details) :
                    \E k \in 1..13 :
                        /\ BlockOf(i).details[n].label = DETAIL_LABELS[k]
                        /\ k <= Len(e.StringInserts)
                        /\ Len(e.StringInserts[k]) <= 800
                           => BlockOf(i).details[n].value = Strip(e.StringInserts[k])
                        /\ Len(e.StringInserts[k]) > 800
                           => BlockOf(i).details[n].value =
                                 Strip(SubSeq(e.StringInserts[k], 1, 800))

RECURSIVE Up(_, _)
\* the directory n levels above path
Up(path, n) == IF n = 0 THEN path ELSE Up(DirName(path), n - 1)

\* the lowercased name holds one of the binary-container keywords
HasKeyword(name) ==
    \E k \in 1..Len(BINARY_FOLDER_PATTERNS) :
        Contains(Lower(name), BINARY_FOLDER_PATTERNS[k])

\* C23: get_game_root_folder ascends at most 4 levels, each one from a
\* directory whose lowercased name holds a binary-container keyword and
\* whose parent is another directory; the returned path is the executable's
\* directory or an ancestor of it at most 4 levels up.
C23_BoundedAscent ==
    pc = "root_done" =>
        LET exe_dir == DirName(AbsPath(exe_path))
            n       == root.levels_up
        IN  /\ n \in 0..4
            /\ \A j \in 0..(n - 1) :
                  /\ HasKeyword(BaseName(Up(exe_dir, j)))
                  /\ Up(exe_dir, j + 1) # Up(exe_dir, j)
            /\ root.path = IF root.fallback THEN exe_dir ELSE Up(exe_dir, n)
            /\ \E j \in 0..4 : root.path = Up(exe_dir, j)

\* the ascent stopped at the fourth level in a directory that still holds a
\* keyword, and that directory is returned
C23_Witness ==
    /\ pc = "root_done"
    /\ root.levels_up = 4 /\ ~root.fallback
    /\ HasKeyword(root.name)
    /\ root.path = Up(DirName(AbsPath(exe_path)), 4)
    /\ root.path # Up(DirName(AbsPath(exe_path)), 5)

\* C24: every handle that OpenEventLog returned is closed exactly once, in
\* the order of opening, before the function returns or the for loop takes
\* the next log name, however the scan ended; at most one handle is open at
\* any time.
C24_ClosedOnceOneAtATime ==
    LET opened == hist.opened
        closed == hist.closed
    IN  /\ Len(closed) <= Len(opened) /\ Len(opened) <= Len(closed) + 1
        /\ \A i \in 1..Len(closed) : closed[i] = opened[i]
        /\ \A i, j \in 1..Len(opened) : opened[i] = opened[j] => i = j
        /\ (hand # NoHandle) <=> (Len(opened) = Len(closed) + 1)
        /\ hand # NoHandle => hand = opened[Len(opened)]
        /\ pc \in {"done", "g_for", "a_open"} => Len(closed) = Len(opened)

\* read_general_logs returned after a read of the Application log failed
\* and the scan of the System log stopped at an older record: both handles
\* were opened and closed
C24_Witness ==
    /\ fn = "read_general_logs" /\ pc = "done"
    /\ hist.opened = <<"Application", "System">>
    /\ hist.closed = <<"Application", "System">>
    /\ hist.ended["Application"] = "failed"
    /\ hist.ended["System"] = "older"
    /\ hand = NoHandle

(***************************************************************************)
(* CrashDetectiveWindow: the event loop, the signals of the path input and *)
(* of the search button, _on_file_changed and _search_crashes              *)
(***************************************************************************)
MaxPending == 3

\* the texts the user puts into exe_path_input, by typing or through the
\* file dialog of _browse_file
UiTexts == { "", "C:/Games/Stellar Blade/bin/sb.exe", "C:/Old/sb.exe", "D:/SB" }

\* what the user does: a click on search_btn, an edit of exe_path_input
UiEvents ==
    {[kind |-> "clicked", text |-> ""]}
    \cup {[kind |-> "edit", text |-> t] : t \in UiTexts}

\* str.endswith
EndsWith(s, suffix) ==
    Len(s) >= Len(suffix) /\ SubSeq(s, Len(s) - Len(suffix) + 1, Len(s)) = suffix

\* _on_file_changed(text): the test before  self._search_crashes()
AutoSearch(text) == text # "" /\ Exists(text) /\ EndsWith(Lower(text), ".exe")

\* the event reaches a slot that calls _search_crashes: clicked of
\* search_btn, or textChanged (emitted when the text is another one) with a
\* text _on_file_changed accepts
CallsSearch(e) ==
    \/ e.kind = "clicked"
    \/ e.kind = "edit" /\ e.text # exe_path /\ AutoSearch(e.text)

\* self.results_text.setText("Searching...")
Searching == <<[kind |-> "searching"]>>

\* what read_application_logs and read_general_logs return to the search
\* of the window
UiAppReads ==
    { [logs |-> <<>>, error |-> NoError],
      [logs |-> <<>>, error |-> AccessDenied],
      [logs |-> <<AppEntry(CHOOSE e \in AppKinds : e.EventID = 1073742825,
                           time_threshold)>>,
       error |-> NoError] }
UiGenReads == { [logs |-> <<>>, error |-> NoError], [logs |-> <<>>, error |-> AccessDenied] }

\* the records of logs the primary pass keeps, each with its match_reason
PrimaryPass(ls, path, r) ==
    LET tagged == [i \in 1..Len(ls) |-> WithReason(ls[i], match_reason(ls[i], path, r))]
        Matched(log) == log.match_reason # NoReason
    IN  SelectSeq(tagged, Matched)

\* the report _handle_search returns for the path in exe_path_input, given
\* what the two readers return
HandleSearch(path, app, gen) ==
    IF path = "" THEN <<InputSection(NoPathText)>>
    ELSE IF ~Exists(path) THEN <<InputSection(NoFileText(path))>>
    ELSE IF app.error # NoError THEN <<ErrorSection(app.error)>>
    ELSE LET r  == get_game_root_folder(path)
             ml == PrimaryPass(app.logs, path, r)
         IN  IF ~NoMatches(ml)
             THEN FoundReport(ml, Len(app.logs), BaseName(path))
             ELSE GeneralReport(gen.logs, gen.error, Len(app.logs), BaseName(path), r.name)

\* the slot the event is connected to runs up to the point where it waits
\* or returns: an edit sets the text; _search_crashes sets the text of
\* results_text and enters QApplication.processEvents()
Deliver(e) ==
    /\ ui_pending' = Tail(ui_pending)
    /\ exe_path' = IF e.kind = "edit" THEN e.text ELSE exe_path
    /\ IF CallsSearch(e)
       THEN /\ ui_stack' = Append(ui_stack, "processEvents")
            /\ results_text' = Searching
       ELSE UNCHANGED <<ui_stack, results_text>>
    /\ UNCHANGED <<pc, root, interpVars, matchVars, readVars, searchVars>>

\* the user clicks or edits; the event waits in the queue
User(e) ==
    /\ Len(ui_pending) + Len(ui_stack) < MaxPending
    /\ ui_pending' = Append(ui_pending, e)
    /\ UNCHANGED <<pc, rootVars, interpVars, matchVars, readVars, searchVars, ui_stack,
                   results_text>>

\* app.exec(): no slot runs, the event loop takes the next event
Exec_Dispatch ==
    /\ pc = "window"
    /\ ui_stack = <<>> /\ ui_pending # <<>>
    /\ Deliver(Head(ui_pending))

\* QApplication.processEvents() inside _search_crashes takes the next
\* event that waits
ProcessEvents_Dispatch ==
    /\ ui_stack # <<>> /\ ui_stack[Len(ui_stack)] = "processEvents"
    /\ ui_pending # <<>>
    /\ Deliver(Head(ui_pending))

\* no event waits: processEvents() returns
ProcessEvents_Return ==
    /\ ui_stack # <<>> /\ ui_stack[Len(ui_stack)] = "processEvents"
    /\ ui_pending = <<>>
    /\ ui_stack' = [ui_stack EXCEPT ![Len(ui_stack)] = "_handle_search"]
    /\ UNCHANGED <<pc, rootVars, interpVars, matchVars, readVars, searchVars, ui_pending,
                   results_text>>

\* result = self._handle_search(); self.results_text.setText(result); the
\* call of _search_crashes ends
Search_Finish ==
    /\ ui_stack # <<>> /\ ui_stack[Len(ui_stack)] = "_handle_search"
    /\ \E app \in UiAppReads, gen \in UiGenReads :
          results_text' = HandleSearch(exe_path, app, gen)
    /\ ui_stack' = SubSeq(ui_stack, 1, Len(ui_stack) - 1)
    /\ UNCHANGED <<pc, rootVars, interpVars, matchVars, readVars, searchVars, ui_pending>>

(***************************************************************************)
(* Specification SpecUI: the window and its user                           *)
(***************************************************************************)
InitUI ==
    /\ pc = "window"
    /\ logs = <<>>
    /\ RootIdle /\ InterpIdle /\ MatchIdle /\ ReaderIdle /\ SearchIdle /\ UiIdle

NextUI ==
    \/ \E e \in UiEvents : User(e)
    \/ Exec_Dispatch
    \/ ProcessEvents_Dispatch
    \/ ProcessEvents_Return
    \/ Search_Finish

SpecUI == InitUI /\ [][NextUI]_vars

\* C25: under every interleaving of clicks on the search button and edits
\* of the path text, those that processEvents() delivers included, no call
\* of _search_crashes begins while another call of it has begun and not
\* ended.
C25_OneSearchAtATime == Len(ui_stack) <= 1

(***************************************************************************)
(* Specification SpecSearchLive: one call of _handle_search that keeps     *)
(* running. The call is one thread of straight-line code and blocking      *)
(* reads that return or raise: whenever it has a next step it takes it.    *)
(***************************************************************************)
StepSearch == NextSearch \/ NextApp \/ NextMatch \/ NextGen
SpecSearchLive == InitSearch /\ [][StepSearch]_vars /\ WF_vars(StepSearch)

\* C26: every search terminates: with a log of finitely many records,
\* whatever the batches and the failures of the log service, each reader
\* that _handle_search calls reaches its return, and _handle_search returns
\* its report.
C26_SearchTerminates ==
    /\ <>(spc = "s_return" /\ result # <<>>)
    /\ (fn = "read_application_logs" /\ pc = "a_open") ~> (pc = "done")
    /\ (fn = "read_general_logs" /\ pc = "g_for") ~> (pc = "done")

\* a search that read batches of both logs through both readers has
\* returned
C26_Witness ==
    /\ spc = "s_return" /\ result # <<>>
    /\ calls = <<"read_application_logs", "read_general_logs">>
    /\ scanned = MaxSearchLog
    /\ hist.closed = <<"Application", "System">>
    /\ hist.ended["Application"] = "end" /\ hist.ended["System"] = "older"
====
